---- MODULE Spec2Model ----
(***************************************************************************)
(* A model of sqlcpp: one polymorphic connection / statement / resultset   *)
(* API over four adapters (SQLite, PostgreSQL, MariaDB, ODBC).             *)
(*                                                                         *)
(* The module holds several specifications over one set of variables, one *)
(* per concern of the library:                                             *)
(*   SpecLife    ownership of the native connection and statement handles  *)
(*   SpecCursor  the cursor resultset and its row iterators                *)
(*   SpecExec    the three consumption paths (cursor, buffered, callback)  *)
(*   SpecBind    positional parameter binding and re-execution             *)
(*   SpecValue   the value conversions and the typed accessors of a row    *)
(*   SpecFail    what the entry points do when the native call fails       *)
(*   SpecCols    column metadata of a resultset                            *)
(*   SpecBatch   connection::execute on several statements at once         *)
(*   SpecBuffers the vectors a MariaDB statement keeps across executions   *)
(* Each specification moves its own variables and leaves the others as     *)
(* its Init set them.                                                      *)
(***************************************************************************)
EXTENDS Integers, Sequences, FiniteSets, TLC

\* The four adapters of the repository.
Adapters == {"sqlite", "postgresql", "mariadb", "odbc"}

VARIABLES
    adapter,        \* the adapter the caller is linked against
    \* ---- SpecLife: who holds what, and the state of the native handles
    connRef,        \* the caller holds its shared_ptr<connection>
    stmtRef,        \* [s] the caller holds the statement returned by prepare()
    rsRef,          \* [s] the caller holds the cursor resultset of s
    itRef,          \* [s] the caller holds an iterator obtained from begin()
    itBound,        \* [s] that iterator still refers to its resultset (MariaDB _resultset)
    lastStmt,       \* MariaDB connection::_last_stmt (0 = empty)
    hstmt,          \* [s] native statement handle: none / live / released / noclient
    stmtReleases,   \* [s] number of native releases of the handle of s
    dbh,            \* native connection handle: open / closed
    dbCloses,       \* number of native closes of the connection handle
    staleStmtUse,   \* a resultset/iterator call reached a released statement handle
    closedConnUse,  \* a statement call reached a closed native connection
    \* ---- SpecCursor: two executed queries and the iterators over them
    nrows,          \* [s] number of rows the query of statement s returns
    rs,             \* [s] the cursor resultset execute() returned
    npos,           \* [s] position of the native cursor: 0 before the first row,
                    \*     k on row k, nrows[s]+1 past the last row
    its,            \* [i] the iterator objects the caller holds
    loop,           \* the caller's  for (it = begin(); it != end(); ++it)  loop
    fault,          \* [s] SQLite: the step onto this position fails (0 = none)
    \* ---- SpecExec: one query consumed along the three paths
    tbl,            \* the rows the query returns, each a sequence of native cells
    curRows,        \* what the cursor path showed the caller
    bufRs,          \* what execute_buffered() returned
    cbRows,         \* what execute(callback) handed to the callback
    got,            \* the outcome of the last get_row(index), and what the row
                    \* reference of the first successful get_row shows now
    \* ---- SpecBind: one prepared statement with positional parameters
    nparams,        \* number of placeholders of the statement
    params,         \* what the adapter holds for the parameters (see SpecBind)
    stepped,        \* SQLite: the statement was stepped after its last reset
    lastBind,       \* [k] the value of the caller's most recent bind(k, v)
    lastOp,         \* the caller's last call
    used,           \* the parameter values the last execute() ran with
    stmtInfo,       \* PostgreSQL statement::_stmt_info: none / described
    \* ---- SpecValue: one cell of a row, one value, one conversion
    curCell,        \* the native cell of the current row (column 0)
    val,            \* a sqlcpp::value in the caller's hands
    out,            \* the caller's last conversion or accessor call and its outcome
    \* ---- SpecFail: one call of an entry point
    drivers,        \* the URL schemes with a registered connection factory
    call,           \* the caller's last call and how it came back
    \* ---- SpecCols: the columns of one resultset
    cols,           \* the result columns, in order: name and native type
    look,           \* the caller's last metadata call and its outcome
    \* ---- SpecBatch: one connection::execute(sql)
    batch,          \* rows changed by each statement of the sql text, in order
    stats,          \* what connection::execute returned
    \* ---- SpecBuffers: one MariaDB statement bound and executed repeatedly
    fields,         \* the result columns as the server describes them
    mystmt          \* the vectors of the mysql_statement object

lifeVars == <<connRef, stmtRef, rsRef, itRef, itBound, lastStmt, hstmt,
              stmtReleases, dbh, dbCloses, staleStmtUse, closedConnUse>>

cursorVars == <<nrows, rs, npos, its, loop, fault>>

execVars == <<tbl, curRows, bufRs, cbRows, got>>

bindVars == <<nparams, params, stepped, lastBind, lastOp, used, stmtInfo>>

valueVars == <<curCell, val, out>>

failVars == <<drivers, call>>

colVars == <<cols, look>>

batchVars == <<batch, stats>>

bufferVars == <<fields, mystmt>>

vars == <<adapter, lifeVars, cursorVars, execVars, bindVars,
          valueVars, failVars, colVars, batchVars, bufferVars>>

\* What each specification leaves alone.
notLife == <<cursorVars, execVars, bindVars, valueVars, failVars, colVars, batchVars, bufferVars>>
notCursor == <<lifeVars, execVars, bindVars, valueVars, failVars, colVars, batchVars, bufferVars>>
notExec == <<lifeVars, cursorVars, bindVars, valueVars, failVars, colVars, batchVars, bufferVars>>
notBind == <<lifeVars, cursorVars, execVars, valueVars, failVars, colVars, batchVars, bufferVars>>
notValue == <<lifeVars, cursorVars, execVars, bindVars, failVars, colVars, batchVars, bufferVars>>
notFail == <<lifeVars, cursorVars, execVars, bindVars, valueVars, colVars, batchVars, bufferVars>>
notCols == <<lifeVars, cursorVars, execVars, bindVars, valueVars, failVars, batchVars, bufferVars>>
notBatch == <<lifeVars, cursorVars, execVars, bindVars, valueVars, failVars, colVars, bufferVars>>
notBuffers == <<lifeVars, cursorVars, execVars, bindVars, valueVars, failVars, colVars, batchVars>>

\* Largest number of rows a query returns.
MaxRows == 2

\* The statements and the iterator variables of the cursor specification.
CStmts == {1, 2}
Slots == {1, 2}

\* resultset_row_iterator(): no implementation behind it.
DefaultIt == [impl |-> FALSE, h |-> 0, st |-> "-", row |-> 0, cur |-> FALSE]

NoRs == [made |-> FALSE, state |-> "-", fresh |-> FALSE, runs |-> 0]
IdleLoop == [pc |-> "idle", s |-> 0, it |-> DefaultIt, seen |-> <<>>, emptyAtStart |-> FALSE,
             pass |-> 0, ret |-> "-"]

\* The cursor variables while another specification runs.
IdleCursor ==
    /\ nrows = [s \in CStmts |-> 0]
    /\ rs = [s \in CStmts |-> NoRs]
    /\ npos = [s \in CStmts |-> 0]
    /\ its = [i \in Slots |-> DefaultIt]
    /\ loop = IdleLoop
    /\ fault = [s \in CStmts |-> 0]

\* Nothing consumed yet.
NotRun == [run |-> FALSE, ok |-> FALSE, rows |-> <<>>]
NoGet == [idx |-> 0, res |-> "none", row |-> <<>>, kept |-> FALSE, first |-> 0, firstRow |-> <<>>]

\* The execution variables while another specification runs.
IdleExec ==
    /\ tbl = <<>>
    /\ curRows = NotRun
    /\ bufRs = NotRun
    /\ cbRows = NotRun
    /\ got = NoGet

\* Largest number of placeholders and largest bound integer.
MaxParams == 2
MaxVal == 2

\* sqlcpp::value alternatives
NullValue == [t |-> "nullptr", v |-> <<>>]
Monostate == [t |-> "monostate", v |-> <<>>]

NoOp == [op |-> "none", k |-> 0]
NotUsed == [run |-> FALSE, ok |-> FALSE, vals |-> <<>>]

\* The binding variables while another specification runs.
IdleBind ==
    /\ nparams = 0
    /\ params = <<>>
    /\ stepped = FALSE
    /\ lastBind = <<>>
    /\ lastOp = NoOp
    /\ used = NotUsed
    /\ stmtInfo = "none"

\* No cell, no conversion yet.
NoCell == [t |-> "none", v |-> <<>>]
NoOut == [op |-> "none", on |-> "none", res |-> "none", v |-> <<>>]

\* The value variables while another specification runs.
IdleValue ==
    /\ curCell = NoCell
    /\ val = Monostate
    /\ out = NoOut

NoCall == [op |-> "none", scheme |-> "none", native |-> "none", res |-> "none",
           logged |-> FALSE, has_row |-> FALSE]

\* The failure variables while another specification runs.
IdleFail ==
    /\ drivers = {}
    /\ call = NoCall

NoLook == [op |-> "none", on |-> "none", arg |-> "", res |-> "none", v |-> 0, t |-> "none"]

\* The column variables while another specification runs.
IdleCols ==
    /\ cols = <<>>
    /\ look = NoLook

NoStats == [run |-> FALSE, affected |-> 0, changes |-> 0]

\* The batch variables while another specification runs.
IdleBatch ==
    /\ batch = <<>>
    /\ stats = NoStats

\* A mysql_statement as its constructor leaves it.
NoStmt == [my_types |-> <<>>, lengths |-> <<>>, is_nulls |-> <<>>,
           column_names |-> <<>>, column_types |-> <<>>, binds |-> <<>>,
           runs |-> 0, path |-> "-"]

\* The buffer variables while another specification runs.
IdleBuffers ==
    /\ fields = <<>>
    /\ mystmt = NoStmt

\* The variables of the later specifications while an earlier one runs.
IdleRest == IdleValue /\ IdleFail /\ IdleCols /\ IdleBatch /\ IdleBuffers

(***************************************************************************)
(* SpecLife                                                                *)
(***************************************************************************)

\* Number of statements the caller prepares on the one connection.
MaxStmts == 2
Stmts == 1..MaxStmts

\* The sqlcpp::statement object of s exists: only the caller holds it.
StmtObj(sr, s) == sr[s]

\* The cursor resultset object of s exists.  The MariaDB iterator keeps a
\* shared_ptr<resultset> until its fetch comes back empty.
RsObj(rr, ir, ib, s) == rr[s] \/ (adapter = "mariadb" /\ ir[s] /\ ib[s])

\* The connection object exists.  Only the ODBC statement holds its connection
\* (shared_from_this); the PostgreSQL statement holds a weak_ptr<PGconn>, the
\* SQLite and MariaDB statements hold nothing of the connection.
ConnObj(cr, sr) == cr \/ (adapter = "odbc" /\ \E s \in Stmts : sr[s])

\* Somebody still owns the native statement handle of s.
HandleHeld(cr, sr, rr, ir, ib, ls, s) ==
    CASE adapter = "sqlite"  -> sr[s] \/ rr[s] \/ ir[s]
      [] adapter = "mariadb" -> sr[s] \/ RsObj(rr, ir, ib, s) \/ (ConnObj(cr, sr) /\ ls = s)
      [] adapter = "odbc"    -> sr[s]
      [] OTHER               -> TRUE

\* The destructors that run once an operation has changed the references:
\* h0 is the handle state after the operation's own native calls and `closed`
\* the statements it closed explicitly (mysql_statement::close).
Settle(cr, sr, rr, ir, ib, ls, h0, closed) ==
    LET gone(s) == h0[s] = "live" /\ (s \in closed \/ ~HandleHeld(cr, sr, rr, ir, ib, ls, s))
        h1 == [s \in Stmts |-> IF gone(s) THEN "released" ELSE h0[s]]
        dying == dbh = "open" /\ ConnObj(connRef, stmtRef) /\ ~ConnObj(cr, sr)
        \* sqlite3_close() refuses (SQLITE_BUSY) while a statement is unfinalized
        \* and leaves the connection open; connection::~connection drops _db anyway.
        busy == adapter = "sqlite" /\ \E s \in Stmts : h1[s] = "live"
    IN  /\ connRef' = cr
        /\ stmtRef' = sr
        /\ rsRef' = rr
        /\ itRef' = ir
        /\ itBound' = ib
        /\ lastStmt' = ls
        /\ hstmt' = h1
        /\ stmtReleases' = [s \in Stmts |-> IF gone(s) THEN stmtReleases[s] + 1 ELSE stmtReleases[s]]
        /\ dbh' = IF dying /\ ~busy THEN "closed" ELSE dbh
        /\ dbCloses' = IF dying /\ ~busy THEN dbCloses + 1 ELSE dbCloses

InitLife ==
    /\ adapter \in Adapters
    /\ connRef = TRUE
    /\ stmtRef = [s \in Stmts |-> FALSE]
    /\ rsRef = [s \in Stmts |-> FALSE]
    /\ itRef = [s \in Stmts |-> FALSE]
    /\ itBound = [s \in Stmts |-> FALSE]
    /\ lastStmt = 0
    /\ hstmt = [s \in Stmts |-> "none"]
    /\ stmtReleases = [s \in Stmts |-> 0]
    /\ dbh = "open"
    /\ dbCloses = 0
    /\ staleStmtUse = FALSE
    /\ closedConnUse = FALSE
    /\ IdleCursor
    /\ IdleExec
    /\ IdleBind
    /\ IdleRest

\* connection::prepare(sql) -> statement
L_connection_prepare(s) ==
    /\ connRef
    /\ hstmt[s] = "none"
    /\ LET closed == IF adapter = "mariadb" /\ lastStmt # 0 THEN {lastStmt} ELSE {}
           h0 == [hstmt EXCEPT ![s] = IF adapter = "postgresql" THEN "noclient" ELSE "live"]
           ls == IF adapter = "mariadb" THEN s ELSE lastStmt
       IN  Settle(connRef, [stmtRef EXCEPT ![s] = TRUE], rsRef, itRef, itBound, ls, h0, closed)
    /\ UNCHANGED <<adapter, notLife, staleStmtUse, closedConnUse>>

\* connection::execute(sql) -> stats_result
L_connection_execute ==
    /\ connRef
    /\ LET closed == IF adapter = "mariadb" /\ lastStmt # 0 THEN {lastStmt} ELSE {}
           ls == IF adapter = "mariadb" THEN 0 ELSE lastStmt
       IN  Settle(connRef, stmtRef, rsRef, itRef, itBound, ls, hstmt, closed)
    /\ UNCHANGED <<adapter, notLife, staleStmtUse, closedConnUse>>

\* statement::execute() -> cursor_resultset (null when the adapter reports failure)
L_statement_execute(s) ==
    /\ stmtRef[s]
    /\ ~rsRef[s]
    /\ ~itRef[s]
    /\ LET noHandle == adapter = "mariadb" /\ hstmt[s] # "live"     \* !ok(): return false
           noConn == adapter \in {"postgresql", "mariadb"} /\ dbh = "closed"
           made == ~noHandle /\ ~noConn
       IN  /\ closedConnUse' = (closedConnUse \/ (~noHandle /\ noConn))
           /\ Settle(connRef, stmtRef, [rsRef EXCEPT ![s] = made], itRef, itBound,
                     lastStmt, hstmt, {})
    /\ UNCHANGED <<adapter, notLife, staleStmtUse>>

\* cursor_resultset::begin()
L_resultset_begin(s) ==
    /\ rsRef[s]
    /\ ~itRef[s]
    /\ \E more \in BOOLEAN :
        LET fetches == adapter = "mariadb" /\ hstmt[s] = "live"
            bound == IF adapter = "mariadb" THEN fetches /\ dbh = "open" /\ more ELSE TRUE
        IN  /\ (adapter # "mariadb" \/ ~fetches \/ dbh # "open") => more
            /\ closedConnUse' = (closedConnUse \/ (fetches /\ dbh = "closed"))
            /\ Settle(connRef, stmtRef, rsRef, [itRef EXCEPT ![s] = TRUE],
                      [itBound EXCEPT ![s] = bound], lastStmt, hstmt, {})
    /\ UNCHANGED <<adapter, notLife, staleStmtUse>>

\* resultset_row_iterator::operator++ -> resultset_row_iterator_impl::next()
L_iterator_next(s) ==
    /\ itRef[s]
    /\ \E more \in BOOLEAN :
        LET fetches == adapter = "mariadb" /\ itBound[s] /\ hstmt[s] = "live"
            bound == IF adapter = "mariadb" THEN fetches /\ dbh = "open" /\ more ELSE TRUE
        IN  /\ (adapter # "mariadb" \/ ~fetches \/ dbh # "open") => more
            /\ closedConnUse' = (closedConnUse \/ (fetches /\ dbh = "closed"))
            /\ staleStmtUse' = (staleStmtUse \/ (adapter = "odbc" /\ hstmt[s] = "released"))
            /\ Settle(connRef, stmtRef, rsRef, itRef, [itBound EXCEPT ![s] = bound],
                      lastStmt, hstmt, {})
    /\ UNCHANGED <<adapter, notLife>>

\* cursor_resultset::has_row(): SQLite and ODBC answer from a cached flag,
\* PostgreSQL from its PGresult, MariaDB asks the native handle without ok().
L_resultset_has_row(s) ==
    /\ rsRef[s]
    /\ staleStmtUse' = (staleStmtUse \/ (adapter = "mariadb" /\ hstmt[s] = "released"))
    /\ UNCHANGED <<adapter, notLife, closedConnUse, connRef, stmtRef, rsRef, itRef, itBound,
                   lastStmt, hstmt, stmtReleases, dbh, dbCloses>>

\* the caller lets go of its connection
L_drop_connection ==
    /\ connRef
    /\ Settle(FALSE, stmtRef, rsRef, itRef, itBound, lastStmt, hstmt, {})
    /\ UNCHANGED <<adapter, notLife, staleStmtUse, closedConnUse>>

\* the caller lets go of a statement
L_drop_statement(s) ==
    /\ stmtRef[s]
    /\ Settle(connRef, [stmtRef EXCEPT ![s] = FALSE], rsRef, itRef, itBound, lastStmt, hstmt, {})
    /\ UNCHANGED <<adapter, notLife, staleStmtUse, closedConnUse>>

\* the caller lets go of a cursor resultset
L_drop_resultset(s) ==
    /\ rsRef[s]
    /\ Settle(connRef, stmtRef, [rsRef EXCEPT ![s] = FALSE], itRef, itBound, lastStmt, hstmt, {})
    /\ UNCHANGED <<adapter, notLife, staleStmtUse, closedConnUse>>

\* the caller lets go of an iterator
L_drop_iterator(s) ==
    /\ itRef[s]
    /\ Settle(connRef, stmtRef, rsRef, [itRef EXCEPT ![s] = FALSE],
              [itBound EXCEPT ![s] = FALSE], lastStmt, hstmt, {})
    /\ UNCHANGED <<adapter, notLife, staleStmtUse, closedConnUse>>

NextLife ==
    \/ \E s \in Stmts : L_connection_prepare(s)
    \/ L_connection_execute
    \/ \E s \in Stmts : L_statement_execute(s)
    \/ \E s \in Stmts : L_resultset_begin(s)
    \/ \E s \in Stmts : L_iterator_next(s)
    \/ \E s \in Stmts : L_resultset_has_row(s)
    \/ L_drop_connection
    \/ \E s \in Stmts : L_drop_statement(s)
    \/ \E s \in Stmts : L_drop_resultset(s)
    \/ \E s \in Stmts : L_drop_iterator(s)

SpecLife == InitLife /\ [][NextLife]_vars

\* Every object made from statement s is gone.
NoOwners(s) == ~StmtObj(stmtRef, s) /\ ~RsObj(rsRef, itRef, itBound, s) /\ ~itRef[s]

\* C1: the native statement handle of a statement is released exactly once,
\* and only after the statement object and every cursor resultset and
\* iterator made from it are gone; no resultset or iterator call reaches a
\* handle that has been released, whatever the drop order.
C1_StmtHandleReleasedOnceAfterOwners ==
    /\ \A s \in Stmts :
        /\ stmtReleases[s] <= 1
        /\ hstmt[s] = "released" => NoOwners(s)
        /\ (hstmt[s] = "live" => ~NoOwners(s))
    /\ ~staleStmtUse

\* C2: the native connection is closed exactly once and never while a
\* statement or resultset made from it exists; a statement keeps the
\* connection open for as long as the statement exists.
C2_ConnClosedOnceAfterStatements ==
    /\ dbCloses <= 1
    /\ dbh = "closed" =>
          \A s \in Stmts : ~StmtObj(stmtRef, s) /\ ~RsObj(rsRef, itRef, itBound, s)
    /\ (~ConnObj(connRef, stmtRef) /\ \A s \in Stmts : NoOwners(s)) => dbCloses = 1
    /\ ~closedConnUse

\* C22: in the MariaDB adapter, connection.prepare() and connection.execute()
\* never close the native handle of a statement the caller still holds, so
\* the statement and its resultsets stay usable.
C22_HeldStatementKeepsHandle ==
    adapter = "mariadb" =>
        \A s \in Stmts : (stmtRef[s] /\ hstmt[s] # "none") => hstmt[s] = "live"

(***************************************************************************)
(* SpecCursor                                                              *)
(***************************************************************************)

\* The life variables while another specification runs.
IdleLife ==
    /\ connRef = TRUE
    /\ stmtRef = [s \in Stmts |-> FALSE]
    /\ rsRef = [s \in Stmts |-> FALSE]
    /\ itRef = [s \in Stmts |-> FALSE]
    /\ itBound = [s \in Stmts |-> FALSE]
    /\ lastStmt = 0
    /\ hstmt = [s \in Stmts |-> "none"]
    /\ stmtReleases = [s \in Stmts |-> 0]
    /\ dbh = "open"
    /\ dbCloses = 0
    /\ staleStmtUse = FALSE
    /\ closedConnUse = FALSE

\* sqlite3_step(): the next row, SQLITE_DONE past the last one, an error
\* code when the step fails; a statement that has returned SQLITE_DONE or an
\* error is reset by the next step and runs again.
sqlite3_step(s) ==
    LET p == IF npos[s] > nrows[s] THEN 1 ELSE npos[s] + 1
    IN  IF p = fault[s]
        THEN [pos |-> 0, rc |-> "ERROR"]
        ELSE [pos |-> p, rc |-> IF p <= nrows[s] THEN "ROW" ELSE "DONE"]

\* mysql_stmt_fetch() / SQLFetch(): the next row, or no-data past the last one.
native_fetch(s) ==
    LET p == IF npos[s] > nrows[s] THEN npos[s] ELSE npos[s] + 1
    IN  [pos |-> p, row |-> IF p <= nrows[s] THEN p ELSE 0]

\* statement::execute(): the resultset it returns and where it leaves the
\* native cursor.
statement_execute(s) ==
    CASE adapter = "sqlite" ->
            LET r == sqlite3_step(s)
            IN  [rs |-> [made |-> r.rc # "ERROR", state |-> r.rc, fresh |-> TRUE, runs |-> 1],
                 pos |-> r.pos]
      [] adapter = "odbc" ->
            \* resultset::resultset fetches once to learn whether there is
            \* data and, when there is, closes the cursor and executes again.
            LET f == native_fetch(s)
            IN  IF f.row # 0
                THEN [rs |-> [made |-> TRUE, state |-> "DATA", fresh |-> TRUE, runs |-> 2],
                      pos |-> 0]
                ELSE [rs |-> [made |-> TRUE, state |-> "NODATA", fresh |-> TRUE, runs |-> 1],
                      pos |-> f.pos]
      [] OTHER -> [rs |-> [made |-> TRUE, state |-> "-", fresh |-> TRUE, runs |-> 1], pos |-> 0]

\* cursor_resultset::begin(): the iterator and the native cursor afterwards.
resultset_begin(s) ==
    CASE adapter = "sqlite" ->
            [it |-> [impl |-> TRUE, h |-> s, st |-> rs[s].state, row |-> 0, cur |-> FALSE],
             pos |-> npos[s]]
      [] adapter = "postgresql" ->
            [it |-> [impl |-> TRUE, h |-> s, st |-> "-", row |-> 0, cur |-> FALSE],
             pos |-> npos[s]]
      [] adapter = "mariadb" ->
            \* the iterator's constructor fetches a row of its own
            LET f == native_fetch(s)
            IN  [it |-> [impl |-> TRUE, h |-> IF f.row = 0 THEN 0 ELSE s, st |-> "-",
                         row |-> f.row, cur |-> FALSE],
                 pos |-> f.pos]
      [] OTHER ->
            [it |-> [impl |-> TRUE, h |-> s, st |-> rs[s].state, row |-> 0,
                     cur |-> rs[s].state = "DATA"],
             pos |-> npos[s]]

\* cursor_resultset::end()
resultset_end(s) ==
    CASE adapter = "sqlite" -> [impl |-> TRUE, h |-> s, st |-> "DONE", row |-> 0, cur |-> FALSE]
      [] adapter = "odbc"   -> [impl |-> TRUE, h |-> s, st |-> "NODATA", row |-> 0, cur |-> FALSE]
      [] OTHER              -> [impl |-> TRUE, h |-> 0, st |-> "-", row |-> 0, cur |-> FALSE]

\* resultset_row_iterator::operator++: the iterator and the native cursor of
\* its statement afterwards (pos is meaningless when the iterator has none).
iterator_next(it) ==
    IF ~it.impl THEN [it |-> it, pos |-> 0, ret |-> "-"]
    ELSE CASE adapter = "sqlite" ->
                LET r == sqlite3_step(it.h)
                IN  [it |-> [it EXCEPT !.st = r.rc], pos |-> r.pos,
                     ret |-> IF r.rc = "ROW" THEN "true" ELSE "false"]
           [] adapter = "postgresql" ->
                [it |-> IF it.h # 0 THEN [it EXCEPT !.row = @ + 1] ELSE it,
                 pos |-> IF it.h # 0 THEN npos[it.h] ELSE 0,
                 ret |-> IF it.h # 0 /\ it.row + 1 < nrows[it.h] THEN "true" ELSE "false"]
           [] adapter = "mariadb" ->
                \* return _current_row.empty();
                IF it.h = 0 THEN [it |-> [it EXCEPT !.row = 0], pos |-> 0, ret |-> "true"]
                ELSE LET f == native_fetch(it.h)
                     IN  [it |-> [it EXCEPT !.row = f.row, !.h = IF f.row = 0 THEN 0 ELSE @],
                          pos |-> f.pos,
                          ret |-> IF f.row = 0 THEN "true" ELSE "false"]
           [] OTHER ->
                LET f == native_fetch(it.h)
                IN  IF f.row = 0
                    THEN [it |-> [it EXCEPT !.st = "NODATA", !.cur = FALSE], pos |-> f.pos,
                          ret |-> "false"]
                    ELSE [it |-> [it EXCEPT !.cur = TRUE], pos |-> f.pos, ret |-> "true"]

\* postgresql resultset_row_iterator_impl::ok()
pg_ok(it) == it.h # 0 /\ it.row < nrows[it.h]

\* resultset_row_iterator_impl::different() of each adapter
different(a, b) ==
    CASE adapter = "sqlite"     -> IF a.h = b.h THEN a.st # b.st ELSE TRUE
      [] adapter = "postgresql" -> IF ~pg_ok(a) /\ ~pg_ok(b) THEN FALSE
                                   ELSE a.h # b.h \/ a.row # b.row
      [] adapter = "mariadb"    -> a.h # b.h
      [] OTHER                  -> IF a.h = b.h THEN a.st # b.st ELSE TRUE

\* resultset_row_iterator::operator!=
NotEqual(a, b) ==
    IF ~a.impl THEN b.impl
    ELSE IF ~b.impl THEN TRUE
    ELSE different(a, b)

\* resultset_row_iterator::operator* : what the caller gets
Deref(it) ==
    IF ~it.impl THEN "Invalid iterator"
    ELSE IF adapter = "odbc" /\ ~it.cur THEN "No current row available"
    ELSE "row"

\* The result row a dereferenced iterator shows, 0 when the native cursor
\* is on no row.
VisibleRow(it) ==
    CASE adapter = "postgresql" -> IF pg_ok(it) THEN it.row + 1 ELSE 0
      [] adapter = "mariadb"    -> it.row
      [] OTHER                  -> IF it.h # 0 /\ npos[it.h] >= 1 /\ npos[it.h] <= nrows[it.h]
                                   THEN npos[it.h] ELSE 0

InitCursor ==
    /\ adapter \in Adapters
    /\ IdleLife
    /\ nrows \in [CStmts -> 0..MaxRows]
    /\ rs = [s \in CStmts |-> NoRs]
    /\ npos = [s \in CStmts |-> 0]
    /\ its = [i \in Slots |-> DefaultIt]
    /\ loop = IdleLoop
    /\ fault \in [CStmts -> 0..(MaxRows + 1)]
    /\ \A s \in CStmts : fault[s] # 0 => (adapter = "sqlite" /\ fault[s] <= nrows[s] + 1)
    /\ IdleExec
    /\ IdleBind
    /\ IdleRest

\* No loop is between its test and its body.
Quiet == loop.pc \in {"idle", "done", "threw"}

\* The native cursor and the freshness of the resultset after a call on
\* statement h moved the cursor to pos (h = 0: no statement involved).
Moved(h, pos) ==
    /\ npos' = IF h # 0 THEN [npos EXCEPT ![h] = pos] ELSE npos
    /\ rs' = IF h # 0 THEN [rs EXCEPT ![h].fresh = FALSE] ELSE rs

\* rs = stmt->execute()
C_execute(s) ==
    /\ Quiet
    /\ ~rs[s].made
    /\ LET e == statement_execute(s)
       IN  /\ rs' = [rs EXCEPT ![s] = e.rs]
           /\ npos' = [npos EXCEPT ![s] = e.pos]
    /\ UNCHANGED <<adapter, notCursor, nrows, fault, its, loop>>

\* its[i] = rs->begin()
C_begin(i, s) ==
    /\ Quiet
    /\ rs[s].made
    /\ LET b == resultset_begin(s)
       IN  /\ its' = [its EXCEPT ![i] = b.it]
           /\ Moved(s, b.pos)
    /\ UNCHANGED <<adapter, notCursor, nrows, fault, loop>>

\* its[i] = rs->end()
C_end(i, s) ==
    /\ Quiet
    /\ rs[s].made
    /\ its' = [its EXCEPT ![i] = resultset_end(s)]
    /\ UNCHANGED <<adapter, notCursor, nrows, fault, rs, npos, loop>>

\* its[i] = resultset_row_iterator()
C_default(i) ==
    /\ Quiet
    /\ its[i] # DefaultIt
    /\ its' = [its EXCEPT ![i] = DefaultIt]
    /\ UNCHANGED <<adapter, notCursor, nrows, fault, rs, npos, loop>>

\* ++its[i]
C_next(i) ==
    /\ Quiet
    /\ its[i].row <= MaxRows
    /\ LET n == iterator_next(its[i])
       IN  /\ its' = [its EXCEPT ![i] = n.it]
           /\ Moved(its[i].h, n.pos)
    /\ UNCHANGED <<adapter, notCursor, nrows, fault, loop>>

\* for (it = rs->begin(); ...
C_loop_start(s) ==
    /\ loop.pc = "idle"
    /\ rs[s].made
    /\ rs[s].fresh
    /\ LET b == resultset_begin(s)
       IN  /\ loop' = [pc |-> "test", s |-> s, it |-> b.it, seen |-> <<>>,
                       emptyAtStart |-> ~NotEqual(b.it, resultset_end(s)),
                       pass |-> 1, ret |-> "-"]
           /\ Moved(s, b.pos)
    /\ UNCHANGED <<adapter, notCursor, nrows, fault, its>>

\* the same loop a second time, over the resultset the first one exhausted
C_loop_again ==
    /\ loop.pc = "done"
    /\ loop.pass = 1
    /\ LET b == resultset_begin(loop.s)
       IN  /\ loop' = [pc |-> "test", s |-> loop.s, it |-> b.it, seen |-> <<>>,
                       emptyAtStart |-> ~NotEqual(b.it, resultset_end(loop.s)),
                       pass |-> 2, ret |-> "-"]
           /\ Moved(loop.s, b.pos)
    /\ UNCHANGED <<adapter, notCursor, nrows, fault, its>>

\* ... it != rs->end(); ...
C_loop_test ==
    /\ loop.pc = "test"
    /\ loop' = [loop EXCEPT !.pc = IF NotEqual(loop.it, resultset_end(loop.s))
                                   THEN "body" ELSE "done"]
    /\ UNCHANGED <<adapter, notCursor, nrows, fault, rs, npos, its>>

\* ... ++it) { use(*it); }
C_loop_body ==
    /\ loop.pc = "body"
    /\ Len(loop.seen) <= MaxRows + 1
    /\ IF Deref(loop.it) = "row"
       THEN LET n == iterator_next(loop.it)
            IN  /\ loop' = [loop EXCEPT !.pc = "test", !.it = n.it, !.ret = n.ret,
                                        !.seen = Append(@, VisibleRow(loop.it))]
                /\ Moved(loop.it.h, n.pos)
       ELSE /\ loop' = [loop EXCEPT !.pc = "threw"]
            /\ UNCHANGED <<rs, npos>>
    /\ UNCHANGED <<adapter, notCursor, nrows, fault, its>>

NextCursor ==
    \/ \E s \in CStmts : C_execute(s)
    \/ \E i \in Slots, s \in CStmts : C_begin(i, s)
    \/ \E i \in Slots, s \in CStmts : C_end(i, s)
    \/ \E i \in Slots : C_default(i)
    \/ \E i \in Slots : C_next(i)
    \/ \E s \in CStmts : C_loop_start(s)
    \/ C_loop_again
    \/ C_loop_test
    \/ C_loop_body

SpecCursor == InitCursor /\ [][NextCursor]_vars

\* The iterator has no current row, by the adapter's own account.
Exhausted(it) ==
    \/ ~it.impl
    \/ adapter = "sqlite" /\ it.st # "ROW"
    \/ adapter = "postgresql" /\ ~pg_ok(it)
    \/ adapter = "mariadb" /\ it.h = 0
    \/ adapter = "odbc" /\ it.st # "DATA"

\* Two iterators are over the same native statement at the same fetch position.
SamePosition(a, b) == a.h = b.h /\ a.st = b.st /\ a.row = b.row

\* C3: the loop  for (it = begin(); it != end(); ++it)  over the resultset of
\* a query returning N rows dereferences exactly the rows 1..N in order and
\* then ends; begin() == end() exactly when N = 0.
C3_LoopVisitsExactlyTheRows ==
    /\ loop.pc # "idle" => (loop.emptyAtStart <=> nrows[loop.s] = 0)
    /\ loop.pc # "threw"
    /\ \A k \in 1..Len(loop.seen) : k <= nrows[loop.s] /\ loop.seen[k] = k
    /\ loop.pc = "done" => Len(loop.seen) = nrows[loop.s]

\* C6: two iterators compare equal whenever both are exhausted (end(), a
\* default-constructed iterator, an iterator run past the last row, over the
\* same or different statements); otherwise they compare equal only if they
\* are over the same native statement at the same fetch position.
C6_IteratorEquality ==
    \A i \in Slots, j \in Slots :
        LET a == its[i]
            b == its[j]
        IN  IF Exhausted(a) /\ Exhausted(b)
            THEN ~NotEqual(a, b)
            ELSE ~NotEqual(a, b) => SamePosition(a, b)

\* C7: dereferencing an exhausted iterator (end(), or one advanced past the
\* last row) raises an invalid-iterator error in every adapter.
C7_DerefExhaustedRaises ==
    \A i \in Slots : Exhausted(its[i]) => Deref(its[i]) # "row"

\* C21: a cursor resultset is one-pass: once a loop has run over its rows to
\* the end, begin() on the same resultset equals end(), and a second loop
\* delivers no row.
C21_SecondLoopIsEmpty ==
    loop.pass = 2 => (loop.emptyAtStart /\ loop.seen = <<>>)

\* C25: statement.execute() runs the native statement exactly once, the
\* look-ahead for has_row() included, and the first row a loop delivers is
\* row 1 of that execution.
C25_ExecuteRunsOnce ==
    /\ \A s \in CStmts : rs[s].made => rs[s].runs = 1
    /\ (loop.pass = 1 /\ loop.seen # <<>>) => loop.seen[1] = 1

\* C26: next() of a row iterator returns true exactly when the step left the
\* iterator on a row, and false once the last row has been passed.
C26_NextTellsWhetherOnRow ==
    loop.ret # "-" => (loop.ret = "true" <=> ~Exhausted(loop.it))

\* C27: when sqlite3_step returns an error code, the iterator of the loop
\* compares equal to end() (or the loop ends with an error); the loop does
\* not go on stepping the statement.
C27_StepErrorEndsLoop ==
    (loop.pc \in {"test", "body"} /\ loop.it.st = "ERROR")
        => ~NotEqual(loop.it, resultset_end(loop.s))

(***************************************************************************)
(* SpecExec                                                                *)
(***************************************************************************)

\* The adapters with the three consumption paths (the ODBC adapter
\* implements the cursor path only).
ExecAdapters == {"sqlite", "postgresql", "mariadb"}

\* Native cells: SQL NULL, an integer, a zero-length blob, a one-byte blob.
Cells == { [t |-> "null", v |-> <<>>], [t |-> "int", v |-> <<7>>],
           [t |-> "blob", v |-> <<>>], [t |-> "blob", v |-> <<1>>] }
Columns == {1}
NativeRows == [Columns -> Cells]

\* The value every path of the adapter gives for a cell that is not a
\* zero-length blob: SQLite reads integers as int64, PostgreSQL (INT4) and
\* MariaDB (LONG) as int.
plain_value(cell) ==
    CASE cell.t = "null" -> NullValue
      [] cell.t = "int"  -> [t |-> IF adapter = "sqlite" THEN "int64" ELSE "int", v |-> cell.v]
      [] cell.t = "blob" -> [t |-> "blob", v |-> cell.v]
      [] cell.t = "text" -> [t |-> "string", v |-> cell.v]
      [] OTHER           -> Monostate

\* row::get_value(c) on the cursor path
cursor_get_value(cell) == plain_value(cell)

\* the value execute(callback) puts in the detached row
callback_value(cell) ==
    IF adapter = "sqlite" /\ cell.t = "blob" /\ Len(cell.v) = 0
    THEN NullValue
    ELSE plain_value(cell)

\* sqlite execute_buffered() gives up on the whole resultset at this cell
buffered_gives_up(cell) == adapter = "sqlite" /\ cell.t = "blob" /\ Len(cell.v) = 0

\* statement::execute() followed by the iterator loop reading every column
cursor_path(rows) ==
    [run |-> TRUE, ok |-> TRUE,
     rows |-> [i \in 1..Len(rows) |-> [c \in Columns |-> cursor_get_value(rows[i][c])]]]

\* statement::execute_buffered()
execute_buffered(rows) ==
    IF \E i \in 1..Len(rows), c \in Columns : buffered_gives_up(rows[i][c])
    THEN [run |-> TRUE, ok |-> FALSE, rows |-> <<>>]
    ELSE [run |-> TRUE, ok |-> TRUE,
          rows |-> [i \in 1..Len(rows) |-> [c \in Columns |-> plain_value(rows[i][c])]]]

\* statement::execute(callback)
execute_callback(rows) ==
    [run |-> TRUE, ok |-> TRUE,
     rows |-> [i \in 1..Len(rows) |-> [c \in Columns |-> callback_value(rows[i][c])]]]

\* buffered_resultset::row_count()
row_count(b) == Len(b.rows)

\* buffered_resultset::get_row(index): the generic resultset of SQLite and
\* PostgreSQL uses vector::at, MariaDB seeks and fetches and hands back
\* whatever came, an empty row when nothing did.
get_row(b, index) ==
    IF index < row_count(b)
    THEN [idx |-> index, res |-> "row", row |-> b.rows[index + 1]]
    ELSE IF adapter = "mariadb"
         THEN [idx |-> index, res |-> "row", row |-> <<>>]
         ELSE [idx |-> index, res |-> "out_of_range", row |-> <<>>]

InitExec ==
    /\ adapter \in ExecAdapters
    /\ IdleLife
    /\ IdleCursor
    /\ \E n \in 0..MaxRows : tbl \in [1..n -> NativeRows]
    /\ curRows = NotRun
    /\ bufRs = NotRun
    /\ cbRows = NotRun
    /\ got = NoGet
    /\ IdleBind
    /\ IdleRest

\* auto rs = stmt->execute(); for (auto& row : *rs) ...
E_cursor ==
    /\ ~curRows.run
    /\ curRows' = cursor_path(tbl)
    /\ UNCHANGED <<adapter, notExec, tbl, bufRs, cbRows, got>>

\* auto rs = stmt->execute_buffered();
E_buffered ==
    /\ ~bufRs.run
    /\ bufRs' = execute_buffered(tbl)
    /\ UNCHANGED <<adapter, notExec, tbl, curRows, cbRows, got>>

\* stmt->execute([&](const row& r) { ... });
E_callback ==
    /\ ~cbRows.run
    /\ cbRows' = execute_callback(tbl)
    /\ UNCHANGED <<adapter, notExec, tbl, curRows, bufRs, got>>

\* rs->get_row(index)
E_get_row(index) ==
    /\ bufRs.run
    /\ bufRs.ok
    /\ LET g == get_row(bufRs, index)
       IN  got' = g @@
             (IF got.kept
              \* MariaDB hands out a reference to its one _current_row
              THEN [kept |-> TRUE, first |-> got.first,
                    firstRow |-> IF adapter = "mariadb" THEN g.row ELSE got.firstRow]
              ELSE IF g.res = "row" /\ index < row_count(bufRs)
              THEN [kept |-> TRUE, first |-> index, firstRow |-> g.row]
              ELSE [kept |-> FALSE, first |-> 0, firstRow |-> <<>>])
    /\ UNCHANGED <<adapter, notExec, tbl, curRows, bufRs, cbRows>>

NextExec ==
    \/ E_cursor
    \/ E_buffered
    \/ E_callback
    \/ \E index \in 0..(MaxRows + 1) : E_get_row(index)

SpecExec == InitExec /\ [][NextExec]_vars

\* C4: execute_buffered() on a query returning N rows returns a non-null
\* resultset with row_count() = N whose cells equal those of the cursor path,
\* whatever the cells are (NULL and zero-length blobs included).
C4_BufferedEqualsCursor ==
    bufRs.run =>
        /\ bufRs.ok
        /\ row_count(bufRs) = Len(tbl)
        /\ curRows.run => bufRs.rows = curRows.rows

\* C5: execute(callback) calls the callback exactly N times, in result order,
\* with rows equal to the rows of the buffered materialization of the query.
C5_CallbackEqualsBuffered ==
    cbRows.run =>
        /\ Len(cbRows.rows) = Len(tbl)
        /\ bufRs.run => (bufRs.ok /\ cbRows.rows = bufRs.rows)

\* C8: get_row(index) returns row index when index < row_count() and raises
\* an out-of-range error when index >= row_count(); it never returns an empty
\* or default row.
C8_GetRowBoundsChecked ==
    got.res # "none" =>
        IF got.idx < row_count(bufRs)
        THEN got.res = "row" /\ got.row = bufRs.rows[got.idx + 1]
        ELSE got.res = "out_of_range"

\* C28: the row obtained from get_row(i) of a buffered resultset keeps
\* showing the values of row i after any later get_row(j) on the same
\* resultset, for all valid i and j.
C28_GetRowLeavesEarlierRow ==
    (got.kept /\ got.idx < row_count(bufRs))
        => got.firstRow = bufRs.rows[got.first + 1]

(***************************************************************************)
(* SpecBind                                                                *)
(*                                                                         *)
(* One prepared INSERT with nparams positional placeholders.  `params` is  *)
(* what the adapter keeps between bind and execute:                        *)
(*   sqlite      the bindings of the native statement, 1..nparams          *)
(*   postgresql  statement::_params, element i of the vector at i + 1      *)
(*   mariadb     the parallel vectors of mysql_statement, element i at     *)
(*               i + 1                                                     *)
(*   odbc        the buffers registered with SQLBindParameter, 1..nparams  *)
(***************************************************************************)

IntValue(n) == [t |-> "int", v |-> <<n>>]
BindValues == { IntValue(n) : n \in 1..MaxVal }

\* A parameter of the ODBC statement nobody bound, and one bound to the
\* address of bind()'s own by-value argument, which is gone when bind returns.
Unbound == [t |-> "unbound", v |-> <<>>]
Dangling == [t |-> "dangling", v |-> <<>>]

\* What a read through a dangling or out-of-bounds pointer can come back with.
Garbage == BindValues \cup {NullValue}

\* std::vector::resize(n, def) when the vector is shorter than n
Resize(seq, n, def) ==
    IF Len(seq) >= n THEN seq ELSE seq \o [i \in 1..(n - Len(seq)) |-> def]

\* The native parameter number statement::bind(k, ...) addresses.
bind_target(k) == IF adapter \in {"sqlite", "odbc"} THEN k + 1 ELSE k

\* statement::bind(k, int): the adapter's parameters afterwards.
statement_bind(k, v) ==
    CASE adapter = "sqlite" ->
            \* sqlite3_bind_int answers SQLITE_MISUSE on a statement stepped
            \* since its last reset and SQLITE_RANGE past the last placeholder;
            \* bind() drops the answer either way.
            IF stepped \/ bind_target(k) > nparams THEN params
            ELSE [params EXCEPT ![bind_target(k)] = v]
      [] adapter = "postgresql" ->
            [Resize(params, k + 1, Monostate) EXCEPT ![k + 1] = v]
      [] adapter = "mariadb" ->
            [Resize(params, k, NullValue) EXCEPT ![k] = v]
      [] OTHER ->
            IF bind_target(k) > nparams THEN params
            ELSE [params EXCEPT ![bind_target(k)] = Dangling]

\* The value execute() would send for placeholder p (Unbound: none).
placeholder_value(p) ==
    CASE adapter = "postgresql" ->
            IF p + 1 <= Len(params)
            THEN (IF params[p + 1] = Monostate THEN NullValue ELSE params[p + 1])
            ELSE Unbound
      [] adapter = "mariadb" -> IF p <= Len(params) THEN params[p] ELSE Unbound
      [] OTHER -> params[p]

\* The placeholders whose value execute() reads from lost memory: past the
\* end of the MariaDB bind array, or through an ODBC buffer address.
lost_slots ==
    CASE adapter = "mariadb" -> { p \in 1..nparams : p > Len(params) }
      [] adapter = "odbc"    -> { p \in 1..nparams : params[p] = Dangling }
      [] OTHER               -> {}

\* statement::execute(): whether the native execute ran and with which
\* parameter values; g is what the reads of lost memory return.
execute_parameters(g) ==
    CASE adapter = "sqlite" ->
            [ok |-> TRUE, vals |-> params]
      [] adapter = "postgresql" ->
            \* execute_prepared passes _params[1..size-1]; the server refuses
            \* any other number of values than the statement has placeholders
            [ok |-> Len(params) = nparams + 1,
             vals |-> [p \in 1..nparams |-> placeholder_value(p)]]
      [] adapter = "mariadb" ->
            \* nothing bound: no mysql_stmt_bind_param, the execute fails;
            \* otherwise the library reads nparams entries of the array
            [ok |-> Len(params) > 0,
             vals |-> [p \in 1..nparams |-> IF p <= Len(params) THEN params[p] ELSE g[p]]]
      [] OTHER ->
            [ok |-> \A p \in 1..nparams : params[p] # Unbound,
             vals |-> [p \in 1..nparams |-> IF params[p] = Dangling THEN g[p] ELSE params[p]]]

InitBind ==
    /\ adapter \in Adapters
    /\ IdleLife
    /\ IdleCursor
    /\ IdleExec
    /\ nparams \in 1..MaxParams
    /\ params = CASE adapter = "sqlite" -> [p \in 1..nparams |-> NullValue]
                  [] adapter = "odbc"   -> [p \in 1..nparams |-> Unbound]
                  [] OTHER              -> <<>>
    /\ stepped = FALSE
    /\ lastBind = [k \in 0..MaxParams |-> Monostate]
    /\ lastOp = NoOp
    /\ used = NotUsed
    /\ stmtInfo = "none"
    /\ IdleRest

\* stmt->bind(k, v); bind(0, ...) on MariaDB asks for vectors of 2^32
\* entries and is left out.
B_bind(k, v) ==
    /\ ~(adapter = "mariadb" /\ k = 0)
    /\ params' = statement_bind(k, v)
    /\ lastBind' = [lastBind EXCEPT ![k] = v]
    /\ lastOp' = [op |-> "bind", k |-> k]
    /\ UNCHANGED <<adapter, notBind, nparams, stepped, used, stmtInfo>>

\* stmt->execute()
B_execute ==
    /\ \E g \in [lost_slots -> Garbage] :
        LET e == execute_parameters(g)
        IN  used' = [run |-> TRUE, ok |-> e.ok, vals |-> e.vals]
    /\ stepped' = (stepped \/ adapter = "sqlite")
    /\ lastOp' = [op |-> "execute", k |-> 0]
    /\ UNCHANGED <<adapter, notBind, nparams, params, lastBind, stmtInfo>>

\* PQresultStatus(res): a null result reads as a fatal error.
PQresultStatus(res) == IF res = "none" THEN "PGRES_FATAL_ERROR" ELSE "PGRES_COMMAND_OK"

\* statement::parameter_count(): what it returns and what it leaves in
\* _stmt_info.  The PostgreSQL adapter describes the statement when
\* _stmt_info is empty and tests the status of _stmt_info, not of the
\* description it just received.
parameter_count ==
    CASE adapter = "postgresql" ->
            IF stmtInfo = "none"
            THEN (IF PQresultStatus(stmtInfo) # "PGRES_COMMAND_OK"
                  THEN [ret |-> 0, info |-> stmtInfo]
                  ELSE [ret |-> nparams, info |-> "described"])
            ELSE [ret |-> nparams, info |-> stmtInfo]
      [] OTHER -> [ret |-> nparams, info |-> stmtInfo]

\* stmt->parameter_count()
B_parameter_count ==
    /\ lastOp' = [op |-> "parameter_count", k |-> parameter_count.ret]
    /\ stmtInfo' = parameter_count.info
    /\ UNCHANGED <<adapter, notBind, nparams, params, stepped, lastBind, used>>

NextBind ==
    \/ \E k \in 0..nparams, v \in BindValues : B_bind(k, v)
    \/ B_execute
    \/ B_parameter_count

SpecBind == InitBind /\ [][NextBind]_vars

\* C9: a statement can be bound and executed again and again; each execute()
\* runs, for every parameter index, with the value of the most recent bind to
\* that index: a bind after a completed execute() takes effect in the next
\* one, and binding an index twice leaves the second value.
C9_ExecuteUsesLatestBind ==
    (lastOp.op = "execute" /\ used.ok) =>
        \A k \in 0..MaxParams :
            (lastBind[k] # Monostate /\ bind_target(k) \in 1..nparams)
                => used.vals[bind_target(k)] = lastBind[k]

\* C10: the public bind(index, value) is 1-based in every adapter: for a
\* statement with P placeholders and k in 1..P, bind(k, v) sets the k-th
\* placeholder.
C10_BindIndexIsOneBased ==
    (lastOp.op = "bind" /\ lastOp.k \in 1..nparams)
        => placeholder_value(lastOp.k) = lastBind[lastOp.k]

\* C29: parameter_count() returns the number of placeholders of the prepared
\* query in every adapter, on the first call and on every later one.
C29_ParameterCountIsPlaceholders ==
    lastOp.op = "parameter_count" => lastOp.k = nparams

(***************************************************************************)
(* SpecValue                                                               *)
(*                                                                         *)
(* A std::string is the sequence of its character codes and a blob the     *)
(* sequence of its bytes, so that "the bytes of the string", "the raw      *)
(* bytes as characters" and "two hex digits per byte" are three different  *)
(* computations.  A double is a whole number (its value), printed by       *)
(* std::to_string with six decimals.                                       *)
(***************************************************************************)

\* Longest generated string, longest blob.
MaxStrLen == 3
MaxBlobLen == 2

\* The character code of a one-character string.
Code(c) ==
    CASE c = " " -> 32 [] c = "-" -> 45 [] c = "." -> 46 [] c = "0" -> 48
      [] c = "1" -> 49 [] c = "2" -> 50 [] c = "A" -> 65 [] c = "E" -> 69
      [] c = "F" -> 70 [] c = "L" -> 76 [] c = "N" -> 78 [] c = "O" -> 79
      [] c = "R" -> 82 [] c = "S" -> 83 [] c = "T" -> 84 [] c = "U" -> 85
      [] c = "\\" -> 92
      [] c = "a" -> 97 [] c = "e" -> 101 [] c = "f" -> 102 [] c = "l" -> 108
      [] c = "n" -> 110 [] c = "o" -> 111 [] c = "r" -> 114 [] c = "s" -> 115
      [] c = "t" -> 116 [] c = "u" -> 117 [] c = "x" -> 120
      [] OTHER -> 63

\* The std::string spelled by a tuple of characters.
Str(chars) == [i \in 1..Len(chars) |-> Code(chars[i])]

\* The strings the caller converts: every string of at most MaxStrLen
\* characters over a digit, a letter, a sign, a blank and a 't', and the
\* spellings of the boolean words.
Chars == {"1", "a", "-", " ", "t"}
Words == { <<"t","r","u","e">>, <<"T","R","U","E">>, <<"T","r","u","e">>,
           <<"t","R","u","E">>, <<"o","n">>, <<"O","N">>, <<"O","n">>,
           <<"f","a","l","s","e">>, <<"N","U","L","L">> }
Texts ==
    { Str(w) : w \in Words }
        \cup UNION { { Str(w) : w \in [1..k -> Chars] } : k \in 0..MaxStrLen }

\* The blobs: every byte sequence of at most MaxBlobLen bytes over these.
Bytes == {0, 1, 2, 171}
Blobs == UNION { [1..k -> Bytes] : k \in 0..MaxBlobLen }

\* The alternatives of sqlcpp::value (NullValue, Monostate and IntValue are
\* defined above).
StringValue(s) == [t |-> "string", v |-> s]
BlobValue(b) == [t |-> "blob", v |-> b]
\* A bool is stored as 1 or 0.
Bit(b) == IF b THEN 1 ELSE 0
BoolValue(b) == [t |-> "bool", v |-> <<Bit(b)>>]
Int64Value(n) == [t |-> "int64", v |-> <<n>>]
DoubleValue(n) == [t |-> "double", v |-> <<n>>]

\* The numbers: small ones, all of which fit an int, so that a cast between
\* int, int64_t and a whole double keeps the value.
Numbers == (0 - MaxVal)..MaxVal

Values ==
    {Monostate, NullValue}
        \cup { StringValue(s) : s \in Texts }
        \cup { BlobValue(b) : b \in Blobs }
        \cup { BoolValue(b) : b \in BOOLEAN }
        \cup { IntValue(n) : n \in Numbers }
        \cup { Int64Value(n) : n \in Numbers }
        \cup { DoubleValue(n) : n \in Numbers }

\* The outcome of a call: a value, an empty optional, or an exception.
Ret(x) == [res |-> "value", v |-> x]
Empty == [res |-> "empty", v |-> <<>>]
Raise(e) == [res |-> e, v |-> <<>>]

\* The character of a decimal digit.
dec_digit(n) == 48 + n

\* "0123456789abcdef"[n]
hex_digit(n) == IF n < 10 THEN 48 + n ELSE 97 + (n - 10)

\* details::blob_to_hex_string
RECURSIVE blob_to_hex_string(_)
blob_to_hex_string(data) ==
    IF data = <<>> THEN <<>>
    ELSE <<hex_digit(Head(data) \div 16), hex_digit(Head(data) % 16)>>
             \o blob_to_hex_string(Tail(data))

\* std::to_string(int) / std::to_string(long long)
RECURSIVE Decimal(_)
Decimal(n) ==
    IF n < 0 THEN <<45>> \o Decimal(0 - n)
    ELSE IF n < 10 THEN <<48 + n>>
    ELSE Decimal(n \div 10) \o <<48 + (n % 10)>>

\* std::to_string(double): "%f"
DecimalF(n) == Decimal(n) \o <<46, 48, 48, 48, 48, 48, 48>>

\* isspace and isdigit of the "C" locale
IsSpace(c) == c \in {32, 9, 10, 11, 12, 13}
IsDigit(c) == c >= 48 /\ c <= 57

RECURSIVE SkipSpace(_)
SkipSpace(s) == IF s # <<>> /\ IsSpace(Head(s)) THEN SkipSpace(Tail(s)) ELSE s

\* the longest prefix of s made of digits
RECURSIVE DigitPrefix(_)
DigitPrefix(s) ==
    IF s # <<>> /\ IsDigit(Head(s)) THEN <<Head(s)>> \o DigitPrefix(Tail(s)) ELSE <<>>

RECURSIVE DigitsValue(_, _)
DigitsValue(ds, acc) ==
    IF ds = <<>> THEN acc ELSE DigitsValue(Tail(ds), 10 * acc + (Head(ds) - 48))

\* strtol / strtoll / strtod on the strings of Texts (no '.', exponent, "inf",
\* "nan" or "0x" among them): blanks, an optional sign, then decimal digits;
\* the parse stops at the first other character.  conv is FALSE when no digit
\* was found.
strtol(s) ==
    LET a == SkipSpace(s)
        signed == a # <<>> /\ Head(a) \in {43, 45}
        b == IF signed THEN Tail(a) ELSE a
        ds == DigitPrefix(b)
        n == DigitsValue(ds, 0)
    IN  [conv |-> ds # <<>>, n |-> IF signed /\ Head(a) = 45 THEN 0 - n ELSE n]

\* A stoi that insists on the whole string being the numeral.
stoi_whole(s) ==
    LET r == strtol(s)
    IN  IF r.conv /\ DigitPrefix(s) = s THEN [res |-> "value", v |-> <<r.n>>]
        ELSE [res |-> "invalid_argument", v |-> <<>>]

\* std::stoi: std::invalid_argument when nothing was converted (the
\* numerals of Texts are too short for std::out_of_range)
stoi(s) == LET r == strtol(s) IN IF r.conv THEN Ret(<<r.n>>) ELSE Raise("invalid_argument")

\* std::stoll and std::stod
stoll(s) == LET r == strtol(s) IN IF r.conv THEN Ret(<<r.n>>) ELSE Raise("invalid_argument")
stod(s) == stoll(s)

\* arg == "TRUE" || arg == "true" || arg == "ON" || arg == "on" || arg == "1"
string_is_true(s) ==
    s \in { Str(<<"T","R","U","E">>), Str(<<"t","r","u","e">>),
            Str(<<"O","N">>), Str(<<"o","n">>), Str(<<"1">>) }

\* sqlcpp::to_string
to_string(x) ==
    CASE x.t = "nullptr" -> Ret(<<>>)
      [] x.t = "string"  -> Ret(x.v)
      [] x.t = "blob"    -> Ret(blob_to_hex_string(x.v))
      [] x.t = "bool"    -> Ret(IF x.v[1] = 1 THEN Str(<<"T","R","U","E">>)
                                ELSE Str(<<"F","A","L","S","E">>))
      [] x.t = "int"     -> Ret(Decimal(x.v[1]))
      [] x.t = "int64"   -> Ret(Decimal(x.v[1]))
      [] x.t = "double"  -> Ret(DecimalF(x.v[1]))
      [] OTHER           -> Ret(<<>>)

\* sqlcpp::to_blob
to_blob(x) ==
    CASE x.t = "monostate" -> Ret(<<>>)
      [] x.t = "nullptr"   -> Ret(<<>>)
      [] x.t = "string"    -> Ret(x.v)
      [] x.t = "blob"      -> Ret(x.v)
      [] x.t = "bool"      -> Ret(IF x.v[1] = 1 THEN <<1>> ELSE <<0>>)
      [] OTHER             -> Ret(<<>>)

\* sqlcpp::to_bool
to_bool(x) ==
    CASE x.t = "monostate" -> Ret(<<0>>)
      [] x.t = "nullptr"   -> Ret(<<0>>)
      [] x.t = "string"    -> Ret(<<Bit(string_is_true(x.v))>>)
      [] x.t = "blob"      -> Ret(<<Bit(x.v # <<>>)>>)
      [] x.t = "bool"      -> Ret(x.v)
      [] OTHER             -> Ret(<<Bit(x.v[1] # 0)>>)

\* sqlcpp::to_int
to_int(x) ==
    CASE x.t = "monostate" -> Ret(<<0>>)
      [] x.t = "nullptr"   -> Ret(<<0>>)
      [] x.t = "string"    -> stoi(x.v)
      [] x.t = "blob"      -> Ret(<<0>>)
      [] x.t = "bool"      -> Ret(IF x.v[1] = 1 THEN <<1>> ELSE <<0>>)
      [] OTHER             -> Ret(x.v)

\* sqlcpp::to_int64
to_int64(x) ==
    CASE x.t = "monostate" -> Ret(<<0>>)
      [] x.t = "nullptr"   -> Ret(<<0>>)
      [] x.t = "string"    -> stoll(x.v)
      [] x.t = "blob"      -> Ret(<<0>>)
      [] x.t = "bool"      -> Ret(IF x.v[1] = 1 THEN <<1>> ELSE <<0>>)
      [] OTHER             -> Ret(x.v)

\* sqlcpp::to_double
to_double(x) ==
    CASE x.t = "monostate" -> Ret(<<0>>)
      [] x.t = "nullptr"   -> Ret(<<0>>)
      [] x.t = "string"    -> stod(x.v)
      [] x.t = "blob"      -> Ret(<<0>>)
      [] x.t = "bool"      -> Ret(IF x.v[1] = 1 THEN <<1>> ELSE <<0>>)
      [] OTHER             -> Ret(x.v)

\* sqlcpp::to_string_opt
to_string_opt(x) ==
    CASE x.t = "nullptr" -> Empty
      [] x.t = "string"  -> Ret(x.v)
      [] x.t = "blob"    -> Ret(blob_to_hex_string(x.v))
      [] x.t = "bool"    -> Ret(IF x.v[1] = 1 THEN Str(<<"T","R","U","E">>)
                                ELSE Str(<<"F","A","L","S","E">>))
      [] x.t = "int"     -> Ret(Decimal(x.v[1]))
      [] x.t = "int64"   -> Ret(Decimal(x.v[1]))
      [] x.t = "double"  -> Ret(DecimalF(x.v[1]))
      [] OTHER           -> Empty

\* sqlcpp::to_blob_opt: the last branch returns {} from a function whose
\* return type is std::optional<blob>, an empty optional
to_blob_opt(x) ==
    CASE x.t = "monostate" -> Empty
      [] x.t = "nullptr"   -> Empty
      [] x.t = "string"    -> Ret(x.v)
      [] x.t = "blob"      -> Ret(x.v)
      [] x.t = "bool"      -> Ret(IF x.v[1] = 1 THEN <<1>> ELSE <<0>>)
      [] OTHER             -> Empty

\* sqlcpp::to_bool_opt
to_bool_opt(x) ==
    CASE x.t = "monostate" -> Empty
      [] x.t = "nullptr"   -> Empty
      [] x.t = "string"    -> Ret(<<Bit(string_is_true(x.v))>>)
      [] x.t = "blob"      -> Ret(<<Bit(x.v # <<>>)>>)
      [] x.t = "bool"      -> Ret(x.v)
      [] OTHER             -> Ret(<<Bit(x.v[1] # 0)>>)

\* sqlcpp::to_int_opt: the blob branch returns {}, an empty optional
to_int_opt(x) ==
    CASE x.t = "monostate" -> Empty
      [] x.t = "nullptr"   -> Empty
      [] x.t = "string"    -> stoi(x.v)
      [] x.t = "blob"      -> Empty
      [] x.t = "bool"      -> Ret(IF x.v[1] = 1 THEN <<1>> ELSE <<0>>)
      [] OTHER             -> Ret(x.v)

\* sqlcpp::to_int64_opt: the blob branch returns {}, an empty optional
to_int64_opt(x) ==
    CASE x.t = "monostate" -> Empty
      [] x.t = "nullptr"   -> Empty
      [] x.t = "string"    -> stoll(x.v)
      [] x.t = "blob"      -> Empty
      [] x.t = "bool"      -> Ret(IF x.v[1] = 1 THEN <<1>> ELSE <<0>>)
      [] OTHER             -> Ret(x.v)

\* sqlcpp::to_double_opt
to_double_opt(x) ==
    CASE x.t = "monostate" -> Empty
      [] x.t = "nullptr"   -> Empty
      [] x.t = "string"    -> stod(x.v)
      [] x.t = "blob"      -> Ret(<<0>>)
      [] x.t = "bool"      -> Ret(IF x.v[1] = 1 THEN <<1>> ELSE <<0>>)
      [] OTHER             -> Ret(x.v)

\* is_null(value)
is_null(x) == x.t = "nullptr"

\* The value of a hexadecimal digit, -1 for any other character.
hex_value(c) ==
    CASE c >= 48 /\ c <= 57  -> c - 48
      [] c >= 97 /\ c <= 102 -> c - 97 + 10
      [] c >= 65 /\ c <= 70  -> c - 65 + 10
      [] OTHER               -> 0 - 1

\* helpers::parse_blob, hex format, after the "\x": two digits make a byte,
\* a last lone digit makes a byte of its own, any other character empties
\* the result.
RECURSIVE parse_hex(_)
parse_hex(s) ==
    IF s = <<>> THEN [ok |-> TRUE, b |-> <<>>]
    ELSE LET n == IF Len(s) >= 2 THEN 2 ELSE 1
             h1 == hex_value(s[1])
             h2 == IF n = 2 THEN hex_value(s[2]) ELSE 0
             rest == parse_hex(SubSeq(s, n + 1, Len(s)))
         IN  IF h1 < 0 \/ h2 < 0 \/ ~rest.ok THEN [ok |-> FALSE, b |-> <<>>]
             ELSE [ok |-> TRUE,
                   b |-> <<IF n = 2 THEN (16 * h1 + h2) % 256 ELSE h1>> \o rest.b]

\* the value of the leading octal digits of s
RECURSIVE octal_value(_, _)
octal_value(s, acc) ==
    IF s # <<>> /\ Head(s) >= 48 /\ Head(s) <= 55
    THEN octal_value(Tail(s), (8 * acc + (Head(s) - 48)) % 256)
    ELSE acc

\* helpers::parse_blob, escape format: \ooo is a byte (the index moves on
\* by four characters whatever the number of octal digits), \\ a backslash,
\* any other escape empties the result.
RECURSIVE parse_escape(_)
parse_escape(s) ==
    IF s = <<>> THEN [ok |-> TRUE, b |-> <<>>]
    ELSE IF Head(s) # 92
    THEN LET rest == parse_escape(Tail(s))
         IN  [ok |-> rest.ok, b |-> IF rest.ok THEN <<Head(s)>> \o rest.b ELSE <<>>]
    ELSE IF Len(s) < 2 THEN [ok |-> FALSE, b |-> <<>>]
    ELSE IF s[2] >= 48 /\ s[2] <= 51
    THEN LET rest == parse_escape(SubSeq(s, 5, Len(s)))
             byte == octal_value(SubSeq(s, 2, IF Len(s) < 4 THEN Len(s) ELSE 4), 0)
         IN  [ok |-> rest.ok, b |-> IF rest.ok THEN <<byte>> \o rest.b ELSE <<>>]
    ELSE IF s[2] = 92
    THEN LET rest == parse_escape(SubSeq(s, 3, Len(s)))
         IN  [ok |-> rest.ok, b |-> IF rest.ok THEN <<92>> \o rest.b ELSE <<>>]
    ELSE [ok |-> FALSE, b |-> <<>>]

\* helpers::parse_blob
parse_blob(s) ==
    IF Len(s) >= 2 /\ s[1] = 92 /\ s[2] = 120
    THEN parse_hex(SubSeq(s, 3, Len(s))).b
    ELSE parse_escape(s).b

\* What the PostgreSQL server sends for a cell in text format: a text as it
\* is, a bytea in hex format.
pg_text(c) ==
    IF c.t = "blob" THEN <<92, 120>> \o blob_to_hex_string(c.v) ELSE c.v

\* statement::execute_prepared: the text sent for a bound parameter (null:
\* no text, a null pointer).
execute_prepared(x) ==
    CASE x.t \in {"monostate", "nullptr"} -> [null |-> TRUE, s |-> <<>>]
      [] x.t = "string" -> [null |-> FALSE, s |-> x.v]
      [] x.t = "blob"   -> [null |-> FALSE, s |-> <<92, 120>> \o blob_to_hex_string(x.v)]
      [] x.t = "bool"   -> [null |-> FALSE, s |-> IF x.v[1] = 1 THEN Str(<<"T","R","U","E">>)
                                                  ELSE Str(<<"F","A","L","S","E">>)]
      [] x.t = "double" -> [null |-> FALSE, s |-> DecimalF(x.v[1])]
      [] OTHER          -> [null |-> FALSE, s |-> Decimal(x.v[1])]

\* What the PostgreSQL server makes of the text of a bytea parameter in hex
\* format: pairs of hexadecimal digits behind "\x", refused otherwise.
\* execute_prepared sends no other format.
RECURSIVE byteain_hex(_)
byteain_hex(s) ==
    IF s = <<>> THEN [ok |-> TRUE, b |-> <<>>]
    ELSE IF Len(s) < 2 \/ hex_value(s[1]) < 0 \/ hex_value(s[2]) < 0
    THEN [ok |-> FALSE, b |-> <<>>]
    ELSE LET rest == byteain_hex(SubSeq(s, 3, Len(s)))
         IN  [ok |-> rest.ok,
              b |-> IF rest.ok THEN <<16 * hex_value(s[1]) + hex_value(s[2])>> \o rest.b
                    ELSE <<>>]

byteain(s) ==
    IF Len(s) >= 2 /\ s[1] = 92 /\ s[2] = 120
    THEN byteain_hex(SubSeq(s, 3, Len(s)))
    ELSE [ok |-> FALSE, b |-> <<>>]

\* What an ODBC driver gives for binary data read as SQL_C_CHAR: two
\* hexadecimal digits per byte.
RECURSIVE odbc_binary_to_char(_)
odbc_binary_to_char(b) ==
    IF b = <<>> THEN <<>>
    ELSE LET up(n) == IF n < 10 THEN 48 + n ELSE 65 + (n - 10)
         IN  <<up(Head(b) \div 16), up(Head(b) % 16)>> \o odbc_binary_to_char(Tail(b))

\* std::string(const char*): up to the first NUL
RECURSIVE c_string(_)
c_string(b) ==
    IF b = <<>> \/ Head(b) = 0 THEN <<>> ELSE <<Head(b)>> \o c_string(Tail(b))

\* The cells of the row under the iterator: a column of type text or blob
\* (col) whose cell is SQL NULL or holds a text or a blob (t, v).
RowCells ==
    { [t |-> "null", v |-> <<>>, col |-> k] : k \in {"text", "blob"} }
        \cup { [t |-> "text", v |-> s, col |-> "text"] : s \in Texts }
        \cup { [t |-> "blob", v |-> b, col |-> "blob"] : b \in Blobs }

\* row::get_value(0) on the row of a cursor iterator
row_get_value(c) ==
    CASE adapter = "sqlite" ->
            CASE c.t = "null" -> NullValue
              [] c.t = "text" -> StringValue(c_string(c.v))
              [] OTHER        -> BlobValue(c.v)
      [] adapter = "postgresql" ->
            CASE c.t = "null" -> NullValue
              [] c.t = "text" -> StringValue(pg_text(c))
              [] OTHER        -> BlobValue(parse_blob(pg_text(c)))
      [] adapter = "mariadb" ->
            CASE c.t = "null" -> NullValue
              [] c.t = "text" -> StringValue(c.v)
              [] OTHER        -> BlobValue(c.v)
      [] OTHER ->
            \* odbc::row::get_value dispatches on the column type to the typed
            \* accessor, which gives its zero value for SQL NULL
            CASE c.col = "text" -> StringValue(IF c.t = "null" THEN <<>> ELSE c_string(c.v))
              [] OTHER          -> BlobValue(c.v)

\* The value a detached row (details::generic_row) holds for the cell.
detached_value(c) ==
    IF adapter = "sqlite" THEN callback_value(c) ELSE row_get_value(c)

\* A whole string that is a numeral: what an ODBC driver converts from
\* character data to SQL_C_LONG / SQL_C_SBIGINT / SQL_C_DOUBLE; anything else
\* is SQLSTATE 22018, and binary data is not convertible at all (07006).
\* check_odbc_error turns both into std::runtime_error.
odbc_number(c) ==
    LET a == c.v
        b == IF a # <<>> /\ Head(a) \in {43, 45} THEN Tail(a) ELSE a
    IN  IF c.t = "text" /\ b # <<>> /\ DigitPrefix(b) = b
        THEN Ret(<<strtol(a).n>>)
        ELSE Raise("runtime_error")

\* row::get_value_string(0) on the row of a cursor iterator
get_value_string(c) ==
    CASE adapter = "sqlite" ->
            \* sqlite3_column_text, NULL for SQL NULL
            Ret(c_string(c.v))
      [] adapter = "postgresql" ->
            IF c.t = "null" THEN Ret(Str(<<"N","U","L","L">>)) ELSE Ret(pg_text(c))
      [] adapter = "mariadb" -> to_string(row_get_value(c))
      [] OTHER ->
            CASE c.t = "null" -> Ret(<<>>)
              [] c.t = "text" -> Ret(c_string(c.v))
              [] OTHER        -> Ret(odbc_binary_to_char(c.v))

\* row::get_value_blob(0)
get_value_blob(c) ==
    CASE adapter = "sqlite"     -> Ret(c.v)
      [] adapter = "postgresql" ->
            IF c.t = "null" THEN Ret(<<>>) ELSE Ret(parse_blob(pg_text(c)))
      [] adapter = "mariadb"    -> to_blob(row_get_value(c))
      [] OTHER                  -> Ret(c.v)

\* row::get_value_int(0)
get_value_int(c) ==
    CASE adapter = "sqlite" ->
            \* sqlite3_column_int: the leading numeral of a text or blob, else 0
            Ret(<<strtol(c.v).n>>)
      [] adapter = "postgresql" ->
            IF c.t = "null" THEN Ret(<<0>>) ELSE stoi(pg_text(c))
      [] adapter = "mariadb" -> to_int(row_get_value(c))
      [] OTHER ->
            IF c.t = "null" THEN Ret(<<0>>) ELSE odbc_number(c)

\* row::get_value_int64(0)
get_value_int64(c) ==
    CASE adapter = "sqlite"     -> Ret(<<strtol(c.v).n>>)
      [] adapter = "postgresql" ->
            IF c.t = "null" THEN Ret(<<0>>) ELSE stoll(pg_text(c))
      [] adapter = "mariadb"    -> to_int64(row_get_value(c))
      [] OTHER ->
            IF c.t = "null" THEN Ret(<<0>>) ELSE odbc_number(c)

\* row::get_value_double(0)
get_value_double(c) ==
    CASE adapter = "sqlite"     -> Ret(<<strtol(c.v).n>>)
      [] adapter = "postgresql" ->
            IF c.t = "null" THEN Ret(<<0>>) ELSE stod(pg_text(c))
      [] adapter = "mariadb"    -> to_double(row_get_value(c))
      [] OTHER ->
            IF c.t = "null" THEN Ret(<<0>>) ELSE odbc_number(c)

\* row::get_value_bool(0)
get_value_bool(c) ==
    CASE adapter = "sqlite" ->
            CASE c.t = "null" -> Ret(<<0>>)
              [] c.t = "text" -> Ret(<<Bit(c_string(c.v) # Str(<<"f","a","l","s","e">>))>>)
              [] OTHER        -> Ret(<<Bit(c.v # <<>>)>>)
      [] adapter = "postgresql" ->
            \* *val == 't'
            IF c.t = "null" THEN Ret(<<0>>)
            ELSE Ret(<<Bit(pg_text(c) # <<>> /\ Head(pg_text(c)) = 116)>>)
      [] adapter = "mariadb" -> to_bool(row_get_value(c))
      [] OTHER ->
            \* get_value_int(index) != 0
            LET n == get_value_int(c)
            IN  IF n.res = "value" THEN Ret(<<Bit(n.v[1] # 0)>>) ELSE n

\* The conversions and accessors by name.
Targets == {"string", "blob", "bool", "int", "int64", "double"}

\* to_X(x)
Convert(X, x) ==
    CASE X = "string" -> to_string(x)
      [] X = "blob"   -> to_blob(x)
      [] X = "bool"   -> to_bool(x)
      [] X = "int"    -> to_int(x)
      [] X = "int64"  -> to_int64(x)
      [] OTHER        -> to_double(x)

\* to_X_opt(x)
ConvertOpt(X, x) ==
    CASE X = "string" -> to_string_opt(x)
      [] X = "blob"   -> to_blob_opt(x)
      [] X = "bool"   -> to_bool_opt(x)
      [] X = "int"    -> to_int_opt(x)
      [] X = "int64"  -> to_int64_opt(x)
      [] OTHER        -> to_double_opt(x)

\* it->get_value_X(0) on the row of a cursor iterator
LiveAccessor(X, c) ==
    CASE X = "string" -> get_value_string(c)
      [] X = "blob"   -> get_value_blob(c)
      [] X = "bool"   -> get_value_bool(c)
      [] X = "int"    -> get_value_int(c)
      [] X = "int64"  -> get_value_int64(c)
      [] OTHER        -> get_value_double(c)

\* details::generic_row::get_value_X(0): to_X of the stored value
DetachedAccessor(X, c) == Convert(X, detached_value(c))

\* Either the caller holds a value of its own and converts it, or it stands
\* on a row with one cell and reads it.
InitValue ==
    /\ adapter \in Adapters
    /\ IdleLife
    /\ IdleCursor
    /\ IdleExec
    /\ IdleBind
    /\ \/ curCell = NoCell /\ val \in Values
       \/ curCell \in RowCells /\ val = Monostate
    /\ out = NoOut
    /\ IdleFail
    /\ IdleCols
    /\ IdleBatch
    /\ IdleBuffers

\* The caller has a value to convert: its own, or one read from the row.
HasValue == curCell = NoCell \/ val # Monostate

\* to_X(val)
V_convert(X) ==
    /\ HasValue
    /\ out' = [op |-> X, on |-> "to"] @@ Convert(X, val)
    /\ UNCHANGED <<adapter, notValue, curCell, val>>

\* to_X_opt(val)
V_convert_opt(X) ==
    /\ HasValue
    /\ out' = [op |-> X, on |-> "to_opt"] @@ ConvertOpt(X, val)
    /\ UNCHANGED <<adapter, notValue, curCell, val>>

\* it->get_value_X(0)
V_live(X) ==
    /\ curCell # NoCell
    /\ out' = [op |-> X, on |-> "live"] @@ LiveAccessor(X, curCell)
    /\ UNCHANGED <<adapter, notValue, curCell, val>>

\* details::generic_row(*it).get_value_X(0)
V_detached(X) ==
    /\ curCell # NoCell
    /\ out' = [op |-> X, on |-> "detached"] @@ DetachedAccessor(X, curCell)
    /\ UNCHANGED <<adapter, notValue, curCell, val>>

\* value v = it->get_value(0);
V_get_value ==
    /\ curCell # NoCell
    /\ val' = row_get_value(curCell)
    /\ out' = [op |-> "get_value", on |-> "live", res |-> "value", v |-> <<>>]
    /\ UNCHANGED <<adapter, notValue, curCell>>

\* value v = details::generic_row(*it).get_value(0);
V_get_value_detached ==
    /\ curCell # NoCell
    /\ val' = detached_value(curCell)
    /\ out' = [op |-> "get_value", on |-> "detached", res |-> "value", v |-> <<>>]
    /\ UNCHANGED <<adapter, notValue, curCell>>

\* PostgreSQL: stmt->bind(1, val); stmt->execute() with the blob the caller
\* holds, on a query that returns its bytea parameter, by a caller that is
\* on no row yet.  The caller then stands on the row of one cell the server
\* made from the text of the parameter; the cell remembers the blob that was
\* bound.
V_bind_execute ==
    /\ adapter = "postgresql"
    /\ curCell = NoCell
    /\ val.t = "blob"
    /\ LET p == execute_prepared(val)
           srv == byteain(p.s)
       IN  IF srv.ok
           THEN /\ curCell' = [t |-> "blob", v |-> srv.b, col |-> "blob", sent |-> val.v]
                /\ out' = [op |-> "bind", on |-> "execute", res |-> "value", v |-> p.s]
           ELSE /\ curCell' = [t |-> "null", v |-> <<>>, col |-> "blob", sent |-> val.v]
                /\ out' = [op |-> "bind", on |-> "execute", res |-> "refused", v |-> p.s]
    /\ UNCHANGED <<adapter, notValue, val>>

NextValue ==
    \/ V_bind_execute
    \/ \E X \in Targets : V_convert(X)
    \/ \E X \in Targets : V_convert_opt(X)
    \/ \E X \in Targets : V_live(X)
    \/ \E X \in Targets : V_detached(X)
    \/ V_get_value
    \/ V_get_value_detached

SpecValue == InitValue /\ [][NextValue]_vars

\* The call came back with an exception.
Raised == out.res \notin {"none", "value", "empty"}

\* The zero value of the return type of get_value_X.
ZeroOf(X) ==
    IF X \in {"string", "blob"} THEN <<>> ELSE <<0>>

\* The string with its letters A..Z turned to lower case.
LowerCase(s) == [i \in 1..Len(s) |-> IF s[i] >= 65 /\ s[i] <= 90 THEN s[i] + 32 ELSE s[i]]

\* case-insensitive match of "true", "on" or "1"
SaysTrue(s) ==
    LowerCase(s) \in { Str(<<"t","r","u","e">>), Str(<<"o","n">>), Str(<<"1">>) }

\* blanks, an optional sign, then at least one digit start the string
HasNumeralPrefix(s) ==
    \E i \in 1..Len(s) :
        /\ IsDigit(s[i])
        /\ \A j \in 1..(i - 1) : IsSpace(s[j]) \/ (j = i - 1 /\ s[j] \in {43, 45})

\* the whole string is an optional sign and digits
IsNumeral(s) ==
    /\ s # <<>>
    /\ IsDigit(s[Len(s)])
    /\ \A j \in 1..Len(s) : IsDigit(s[j]) \/ (j = 1 /\ s[j] \in {43, 45})

\* C11: for a cell that is SQL NULL, on live and on detached rows, every
\* scalar accessor returns the zero value of its type, get_value(i) is null
\* (is_null) and every to_X_opt of it is an empty optional.
C11_NullCellReadsAsZero ==
    (curCell # NoCell /\ curCell.t = "null") =>
        /\ (out.on \in {"live", "detached"} /\ out.op \in Targets)
               => (out.res = "value" /\ out.v = ZeroOf(out.op))
        /\ val # Monostate => is_null(val)
        /\ out.on = "to_opt" => out.res = "empty"

\* C17: to_string(value) of a blob is two lowercase hex digits per byte
\* ({0x01,0x02} gives "0102"), while get_value_string on a blob cell returns
\* the raw bytes as characters, on live and on detached rows alike.
C17_BlobHexOnlyInToString ==
    /\ (out.on = "to" /\ out.op = "string" /\ val.t = "blob") =>
           /\ out.res = "value"
           /\ Len(out.v) = 2 * Len(val.v)
           /\ \A i \in 1..Len(out.v) : hex_value(out.v[i]) >= 0 /\ out.v[i] = LowerCase(out.v)[i]
           /\ val.v = <<1, 2>> => out.v = Str(<<"0", "1", "0", "2">>)
    /\ (out.on \in {"live", "detached"} /\ out.op = "string" /\ curCell.t = "blob") =>
           (out.res = "value" /\ out.v = curCell.v)

\* C18: to_bool and to_bool_opt of a string are true exactly for "true", "on"
\* and "1" compared without regard to case, and get_value_bool on a text
\* cell answers the same on live and on detached rows.
C18_StringToBoolIgnoresCase ==
    /\ (out.on \in {"to", "to_opt"} /\ out.op = "bool" /\ val.t = "string") =>
           (out.res = "value" /\ out.v = <<Bit(SaysTrue(val.v))>>)
    /\ (out.on \in {"live", "detached"} /\ out.op = "bool" /\ curCell.t = "text") =>
           (out.res = "value" /\ out.v = <<Bit(SaysTrue(curCell.v))>>)

\* C19 as stated: only to_int / to_int64 (and _opt) of a string raise, and
\* they raise exactly when the whole string is not a numeral ("", "abc",
\* "12abc"); nothing else raises.
C19_OnlyIntOfNonNumeralRaises ==
    out.on \in {"to", "to_opt"} =>
        (Raised <=> (out.op \in {"int", "int64"} /\ val.t = "string" /\ ~IsNumeral(val.v)))

\* C19: to_int, to_int64 and to_double (and _opt) of a string return the
\* number spelled by its longest numeric prefix (blanks, optional sign,
\* digits; "1a" gives 1) and raise exactly when the string has no such
\* prefix; no conversion of another value, and no to_string, to_blob or
\* to_bool, raises.
C19_NumericPrefixOrRaise ==
    out.on \in {"to", "to_opt"} =>
        /\ Raised <=> (out.op \in {"int", "int64", "double"} /\ val.t = "string"
                          /\ ~HasNumeralPrefix(val.v))
        /\ (out.op \in {"int", "int64", "double"} /\ val = StringValue(Str(<<"1", "a">>)))
               => out.v = <<1>>
        /\ (out.op \in {"int", "int64", "double"} /\ val = StringValue(Str(<<"-", "1", "1">>)))
               => out.v = <<0 - 11>>

\* A string with trailing characters behind its numeral was converted.
C19_Witness ==
    /\ out.on = "to"
    /\ out.op = "int"
    /\ val = StringValue(Str(<<"1", "a">>))
    /\ out.res = "value"

\* C20: to_X_opt(v) is an empty optional exactly when v is the unset or the
\* null alternative, and holds to_X(v) for every other v.
C20_OptEmptyIffNullOrUnset ==
    out.on = "to_opt" =>
        /\ out.res = "empty" <=> val \in {Monostate, NullValue}
        /\ out.res # "empty" =>
               (out.res = Convert(out.op, val).res /\ out.v = Convert(out.op, val).v)

\* The current row is the echo of a bound blob.
Echo == "sent" \in DOMAIN curCell

\* C30: the PostgreSQL text of a bound blob b, "\x" and then
\* blob_to_hex_string(b), is decoded by parse_blob to exactly b, the empty
\* blob and bytes from 0x80 on included, and a blob bound with bind(i, b)
\* and read back with get_value_blob is b.
C30_BoundBlobRoundTrips ==
    /\ (Echo /\ out.on = "execute") =>
           (out.res = "value" /\ parse_blob(out.v) = curCell.sent)
    /\ (Echo /\ out.on = "live" /\ out.op = "blob") =>
           (out.res = "value" /\ out.v = curCell.sent)

\* A bound blob of two bytes, one of them above 0x7f, was read back.
C30_Witness ==
    /\ Echo
    /\ out.on = "live"
    /\ out.op = "blob"
    /\ curCell.sent = <<171, 0>>
    /\ out.v = <<171, 0>>

(***************************************************************************)
(* SpecFail                                                                *)
(*                                                                         *)
(* What the caller gets back from connection::create, the adapters'        *)
(* create, prepare and the executes, when the native call behind them      *)
(* succeeds and when it fails.  call.res is "object" for a non-null        *)
(* pointer, "null" for an empty one, "void" for a normal return without a  *)
(* result, "raise" for an exception thrown by value and "raise_ptr" for    *)
(* 'throw new': a pointer to an exception.                                 *)
(***************************************************************************)

\* What the native call did: failed, or succeeded with no row or with rows.
Natives == {"fail", "ok0", "ok1"}

\* The schemes of the URLs handed to connection::create.
Schemes == {"sqlite", "mariadb", "toto"}

\* connection_factory::supported_schemes of the two factories.
supported_schemes(a) ==
    CASE a = "sqlite" -> {"sqlite"}
      [] a = "mariadb" -> {"my", "mysql", "maria", "mariadb"}
      [] OTHER -> {}

\* The record of a finished call.
Called(op, scheme, native, res, logged) ==
    [op |-> op, scheme |-> scheme, native |-> native, res |-> res,
     logged |-> logged, has_row |-> (res = "object" /\ native = "ok1")]

InitFail ==
    /\ adapter \in Adapters
    /\ IdleLife
    /\ IdleCursor
    /\ IdleExec
    /\ IdleBind
    /\ IdleValue
    /\ drivers = {}
    /\ call = NoCall
    /\ IdleCols
    /\ IdleBatch
    /\ IdleBuffers

\* register_connection_factory of the adapter library a
F_register(a) ==
    /\ supported_schemes(a) # {}
    /\ ~(supported_schemes(a) \subseteq drivers)
    /\ drivers' = drivers \cup supported_schemes(a)
    /\ UNCHANGED <<adapter, call, notFail>>

\* sqlcpp::connection::create(url)
F_connection_create(scheme, native) ==
    /\ call' = Called("connection_create", scheme, native, "null", FALSE)
    /\ UNCHANGED <<adapter, drivers, notFail>>

\* <adapter>::connection::create(connection_string)
F_adapter_create(native) ==
    /\ call' =
         CASE native # "fail" ->
                Called("create", "none", native, "object", FALSE)
           [] native = "fail" /\ adapter \in {"sqlite", "postgresql"} ->
                Called("create", "none", native, "null", FALSE)
           [] native = "fail" /\ adapter = "mariadb" ->
                Called("create", "none", native, "raise_ptr", FALSE)
           [] native = "fail" /\ adapter = "odbc" ->
                Called("create", "none", native, "raise", FALSE)
    /\ UNCHANGED <<adapter, drivers, notFail>>

\* connection::prepare(query)
F_prepare(native) ==
    /\ call' =
         CASE native # "fail" ->
                Called("prepare", "none", native, "object", FALSE)
           [] native = "fail" /\ adapter \in {"sqlite", "postgresql"} ->
                Called("prepare", "none", native, "null", TRUE)
           [] native = "fail" /\ adapter = "mariadb" ->
                Called("prepare", "none", native, "null", FALSE)
           [] native = "fail" /\ adapter = "odbc" ->
                Called("prepare", "none", native, "raise", FALSE)
    /\ UNCHANGED <<adapter, drivers, notFail>>

\* connection::execute(query)
F_execute(native) ==
    /\ call' =
         CASE native # "fail" /\ adapter # "odbc" ->
                Called("execute", "none", native, "object", FALSE)
           [] native # "fail" /\ adapter = "odbc" ->
                Called("execute", "none", native, "void", FALSE)
           [] native = "fail" /\ adapter = "sqlite" ->
                Called("execute", "none", native, "object", TRUE)
           [] native = "fail" /\ adapter = "postgresql" ->
                Called("execute", "none", native, "null", TRUE)
           [] native = "fail" /\ adapter = "mariadb" ->
                Called("execute", "none", native, "raise_ptr", FALSE)
           [] native = "fail" /\ adapter = "odbc" ->
                Called("execute", "none", native, "raise", FALSE)
    /\ UNCHANGED <<adapter, drivers, notFail>>

\* statement::execute()
F_stmt_execute(native) ==
    /\ call' =
         CASE native # "fail" ->
                Called("stmt_execute", "none", native, "object", FALSE)
           [] native = "fail" /\ adapter \in {"sqlite", "mariadb"} ->
                Called("stmt_execute", "none", native, "null", FALSE)
           [] native = "fail" /\ adapter = "postgresql" ->
                Called("stmt_execute", "none", native, "null", TRUE)
           [] native = "fail" /\ adapter = "odbc" ->
                Called("stmt_execute", "none", native, "raise", FALSE)
    /\ UNCHANGED <<adapter, drivers, notFail>>

\* statement::execute_buffered()
F_stmt_execute_buffered(native) ==
    /\ adapter # "odbc"
    /\ call' =
         CASE native # "fail" ->
                Called("stmt_execute_buffered", "none", native, "object", FALSE)
           [] native = "fail" /\ adapter \in {"sqlite", "mariadb"} ->
                Called("stmt_execute_buffered", "none", native, "null", FALSE)
           [] native = "fail" /\ adapter = "postgresql" ->
                Called("stmt_execute_buffered", "none", native, "null", TRUE)
    /\ UNCHANGED <<adapter, drivers, notFail>>

\* statement::execute(callback)
F_stmt_execute_callback(native) ==
    /\ adapter # "odbc"
    /\ call' = Called("stmt_execute_callback", "none", native, "void",
                      native = "fail" /\ adapter = "postgresql")
    /\ UNCHANGED <<adapter, drivers, notFail>>

NextFail ==
    \/ \E a \in Adapters : F_register(a)
    \/ \E s \in Schemes, n \in Natives : F_connection_create(s, n)
    \/ \E n \in Natives : F_adapter_create(n)
    \/ \E n \in Natives : F_prepare(n)
    \/ \E n \in Natives : F_execute(n)
    \/ \E n \in Natives : F_stmt_execute(n)
    \/ \E n \in Natives : F_stmt_execute_buffered(n)
    \/ \E n \in Natives : F_stmt_execute_callback(n)

SpecFail == InitFail /\ [][NextFail]_vars

\* The caller was handed an exception.
CallRaised == call.res \in {"raise", "raise_ptr"}

\* C12: in every adapter, when the native connect, prepare or execute call
\* fails, the adapter's create, connection.prepare, connection.execute and
\* the three statement executes raise; none returns an empty or a non-empty
\* result, and none only logs.
C12_NativeFailureRaises ==
    (call.op \notin {"none", "connection_create"} /\ call.native = "fail")
        => CallRaised

\* C13: connection::create returns an empty connection without raising when
\* no driver is registered for the scheme and raises when the driver's
\* connect fails; a statement executed with zero rows gives a non-null
\* resultset whose has_row() is false.
C13_ThreeOutcomesDistinct ==
    /\ (call.op = "connection_create" /\ call.scheme \notin drivers)
           => call.res = "null"
    /\ (call.op = "connection_create" /\ call.scheme \in drivers /\ call.native = "fail")
           => CallRaised
    /\ (call.op \in {"stmt_execute", "stmt_execute_buffered"} /\ call.native = "ok0")
           => (call.res = "object" /\ ~call.has_row)

(***************************************************************************)
(* SpecCols                                                                *)
(*                                                                         *)
(* The column metadata of a resultset: column_name, column_index and       *)
(* column_type of the cursor resultsets ("live") and of the buffered ones. *)
(* Indexes are the zero-based indexes of the code.  A column is its name   *)
(* and the type the native library reports for it; MariaDB also reports    *)
(* the display length and the BINARY_FLAG.                                 *)
(***************************************************************************)

\* Largest number of columns of a resultset.
MaxCols == 2

\* Column names, and names to look up.
Names == {"id", "Id", "n"}

\* std::numeric_limits<unsigned int>::max(), which is (unsigned int)-1
NotFound == 0 - 1

\* A field as the native library describes it.
Field(type, length, binary) == [type |-> type, length |-> length, binary |-> binary]

\* The native types the adapter can meet.
NativeFields(a) ==
    CASE a = "sqlite" ->
           { Field(t, 0, FALSE) : t \in {"SQLITE_INTEGER", "SQLITE_FLOAT", "SQLITE_TEXT",
                                         "SQLITE_BLOB", "SQLITE_NULL"} }
      [] a = "postgresql" ->
           { Field(t, 0, FALSE) : t \in {"INT4OID", "INT8OID", "FLOAT8OID", "NUMERICOID",
                                         "VARCHAROID", "BYTEAOID", "DATEOID"} }
      [] a = "mariadb" ->
           { Field("MYSQL_TYPE_TINY", 1, FALSE), Field("MYSQL_TYPE_TINY", 4, FALSE),
             Field("MYSQL_TYPE_LONGLONG", 20, FALSE), Field("MYSQL_TYPE_NEWDECIMAL", 10, FALSE),
             Field("MYSQL_TYPE_VAR_STRING", 10, FALSE), Field("MYSQL_TYPE_VAR_STRING", 10, TRUE),
             Field("MYSQL_TYPE_BLOB", 10, FALSE), Field("MYSQL_TYPE_DATETIME", 19, FALSE) }
      [] a = "odbc" ->
           { Field(t, 0, FALSE) : t \in {"SQL_INTEGER", "SQL_BIGINT", "SQL_DOUBLE", "SQL_DECIMAL",
                                         "SQL_VARCHAR", "SQL_VARBINARY", "SQL_TYPE_DATE"} }

\* resultset::convert_column_type of the SQLite adapter
convert_column_type(f) ==
    CASE f.type = "SQLITE_NULL" -> "NULL_VALUE"
      [] f.type = "SQLITE_INTEGER" -> "INT64"
      [] f.type = "SQLITE_FLOAT" -> "DOUBLE"
      [] f.type = "SQLITE_TEXT" -> "STRING"
      [] f.type = "SQLITE_BLOB" -> "BLOB"
      [] OTHER -> "UNSUPPORTED"

\* helpers::column_type_from_oid of the PostgreSQL adapter
column_type_from_oid(f) ==
    CASE f.type = "BOOLOID" -> "BOOL"
      [] f.type \in {"INT2OID", "INT4OID"} -> "INT"
      [] f.type = "INT8OID" -> "INT64"
      [] f.type \in {"FLOAT4OID", "FLOAT8OID"} -> "DOUBLE"
      [] f.type \in {"TEXTOID", "VARCHAROID", "BPCHAROID", "NAMEOID", "CHAROID"} -> "STRING"
      [] f.type = "BYTEAOID" -> "BLOB"
      [] OTHER -> "UNSUPPORTED"

\* The switch of mysql_statement::prepare_buffers
prepare_buffers(f) ==
    CASE f.type = "MYSQL_TYPE_TINY" -> IF f.length = 1 THEN "BOOL" ELSE "INT"
      [] f.type \in {"MYSQL_TYPE_SHORT", "MYSQL_TYPE_LONG", "MYSQL_TYPE_INT24",
                     "MYSQL_TYPE_YEAR"} -> "INT"
      [] f.type = "MYSQL_TYPE_LONGLONG" -> "INT64"
      [] f.type \in {"MYSQL_TYPE_FLOAT", "MYSQL_TYPE_DOUBLE"} -> "DOUBLE"
      [] f.type \in {"MYSQL_TYPE_STRING", "MYSQL_TYPE_VAR_STRING", "MYSQL_TYPE_VARCHAR",
                     "MYSQL_TYPE_BLOB", "MYSQL_TYPE_TINY_BLOB", "MYSQL_TYPE_MEDIUM_BLOB",
                     "MYSQL_TYPE_LONG_BLOB"} -> IF f.binary THEN "BLOB" ELSE "STRING"
      [] f.type = "MYSQL_TYPE_NULL" -> "NULL_VALUE"
      [] OTHER -> "UNSUPPORTED"

\* resultset::column_type of the MariaDB adapter that switches on _types
mariadb_column_type(f) ==
    CASE f.type \in {"MYSQL_TYPE_TINY", "MYSQL_TYPE_SHORT", "MYSQL_TYPE_LONG",
                     "MYSQL_TYPE_INT24", "MYSQL_TYPE_YEAR"} -> "INT"
      [] f.type = "MYSQL_TYPE_LONGLONG" -> "INT64"
      [] f.type \in {"MYSQL_TYPE_FLOAT", "MYSQL_TYPE_DOUBLE", "MYSQL_TYPE_DECIMAL",
                     "MYSQL_TYPE_NEWDECIMAL"} -> "DOUBLE"
      [] f.type \in {"MYSQL_TYPE_TIMESTAMP", "MYSQL_TYPE_DATE", "MYSQL_TYPE_TIME",
                     "MYSQL_TYPE_DATETIME", "MYSQL_TYPE_NEWDATE"} -> "STRING"
      [] f.type \in {"MYSQL_TYPE_STRING", "MYSQL_TYPE_VAR_STRING", "MYSQL_TYPE_VARCHAR"} -> "STRING"
      [] f.type \in {"MYSQL_TYPE_BLOB", "MYSQL_TYPE_TINY_BLOB", "MYSQL_TYPE_MEDIUM_BLOB",
                     "MYSQL_TYPE_LONG_BLOB"} -> "BLOB"
      [] f.type = "MYSQL_TYPE_NULL" -> "NULL_VALUE"
      [] OTHER -> "UNSUPPORTED"

\* resultset::column_type of the ODBC adapter
odbc_column_type(f) ==
    CASE f.type \in {"SQL_CHAR", "SQL_VARCHAR", "SQL_LONGVARCHAR", "SQL_WCHAR",
                     "SQL_WVARCHAR", "SQL_WLONGVARCHAR"} -> "STRING"
      [] f.type \in {"SQL_BINARY", "SQL_VARBINARY", "SQL_LONGVARBINARY"} -> "BLOB"
      [] f.type = "SQL_BIT" -> "BOOL"
      [] f.type \in {"SQL_TINYINT", "SQL_SMALLINT", "SQL_INTEGER"} -> "INT"
      [] f.type = "SQL_BIGINT" -> "INT64"
      [] f.type \in {"SQL_REAL", "SQL_FLOAT", "SQL_DOUBLE", "SQL_DECIMAL", "SQL_NUMERIC"} -> "DOUBLE"
      [] OTHER -> "UNSUPPORTED"

\* column_type(index); MariaDB has the resultset that asks the statement
\* (how = "statement") and the one that switches itself (how = "switch").
column_type(a, how, f) ==
    CASE a = "sqlite" -> convert_column_type(f)
      [] a = "postgresql" -> column_type_from_oid(f)
      [] a = "mariadb" -> IF how = "statement" THEN prepare_buffers(f) ELSE mariadb_column_type(f)
      [] a = "odbc" -> odbc_column_type(f)

\* column_name(index)
column_name(i) == cols[i + 1].name

\* The first column of that name, as the loops of column_index find it.
first_match(name) ==
    IF \E i \in 1..Len(cols) : cols[i].name = name
    THEN (CHOOSE i \in 1..Len(cols) :
              /\ cols[i].name = name
              /\ \A j \in 1..(i - 1) : cols[j].name # name) - 1
    ELSE NotFound

\* PQfnumber: the name is downcased like an unquoted identifier.
downcase(name) == IF name = "Id" THEN "id" ELSE name

\* column_index(name) of the resultset kind `on` of adapter a
column_index(a, on, name) ==
    CASE a = "odbc" ->
           IF first_match(name) = NotFound
           THEN [res |-> "runtime_error", v |-> 0]
           ELSE [res |-> "value", v |-> first_match(name)]
      [] a = "postgresql" /\ on = "live" ->
           [res |-> "value", v |-> first_match(downcase(name))]
      [] OTHER -> [res |-> "value", v |-> first_match(name)]

InitCols ==
    /\ adapter \in Adapters
    /\ IdleLife
    /\ IdleCursor
    /\ IdleExec
    /\ IdleBind
    /\ IdleValue
    /\ IdleFail
    /\ \E n \in 1..MaxCols :
           cols \in [1..n -> [name : Names \ {"n"}, f : NativeFields(adapter)]]
    /\ look = NoLook
    /\ IdleBatch
    /\ IdleBuffers

\* resultset->column_name(i)
K_column_name(i) ==
    /\ i < Len(cols)
    /\ look' = [op |-> "column_name", on |-> "live", arg |-> column_name(i),
                res |-> "value", v |-> i, t |-> "none"]
    /\ UNCHANGED <<adapter, cols, notCols>>

\* resultset->column_index(name), cursor or buffered resultset
K_column_index(on, name) ==
    /\ on = "buffered" => adapter # "odbc"
    /\ look' = [op |-> "column_index", on |-> on, arg |-> name, t |-> "none"]
                   @@ column_index(adapter, on, name)
    /\ UNCHANGED <<adapter, cols, notCols>>

\* resultset->column_type(i)
K_column_type(how, i) ==
    /\ i < Len(cols)
    /\ how = "switch" => adapter = "mariadb"
    /\ look' = [op |-> "column_type", on |-> how, arg |-> "", res |-> "value", v |-> i,
                t |-> column_type(adapter, how, cols[i + 1].f)]
    /\ UNCHANGED <<adapter, cols, notCols>>

NextCols ==
    \/ \E i \in 0..(MaxCols - 1) : K_column_name(i)
    \/ \E on \in {"live", "buffered"}, name \in Names : K_column_index(on, name)
    \/ \E how \in {"statement", "switch"}, i \in 0..(MaxCols - 1) : K_column_type(how, i)

SpecCols == InitCols /\ [][NextCols]_vars

\* C14: column_index(column_name(i)) is i for every column i, also when two
\* columns have the same name, and column_index of a name that is no column
\* name returns the largest unsigned int without raising.
C14_ColumnLookupSymmetry ==
    look.op = "column_index" =>
        /\ look.res = "value"
        /\ \A i \in 0..(Len(cols) - 1) : look.arg = column_name(i) => look.v = i
        /\ (\A i \in 0..(Len(cols) - 1) : look.arg # column_name(i)) => look.v = NotFound

\* The family of a native type, in the words of the mapping rule.
Family(f) ==
    CASE f.type \in {"MYSQL_TYPE_TINY", "INT4OID", "SQL_INTEGER"} -> "INT"
      [] f.type \in {"SQLITE_INTEGER", "MYSQL_TYPE_LONGLONG", "INT8OID", "SQL_BIGINT"} -> "INT64"
      [] f.type \in {"SQLITE_FLOAT", "FLOAT8OID", "NUMERICOID", "MYSQL_TYPE_NEWDECIMAL",
                     "SQL_DOUBLE", "SQL_DECIMAL"} -> "DOUBLE"
      [] f.type \in {"SQLITE_TEXT", "VARCHAROID", "SQL_VARCHAR"} -> "STRING"
      [] f.type \in {"MYSQL_TYPE_VAR_STRING", "MYSQL_TYPE_BLOB"} ->
             IF f.binary THEN "BLOB" ELSE "STRING"
      [] f.type \in {"SQLITE_BLOB", "BYTEAOID", "SQL_VARBINARY"} -> "BLOB"
      [] f.type = "SQLITE_NULL" -> "NULL_VALUE"
      [] OTHER -> "UNSUPPORTED"

\* C16: column_type is INT for the integers narrower than 64 bits, INT64
\* for the 64-bit ones, DOUBLE for floats and decimals, STRING for character
\* types, BLOB for binary types, and UNSUPPORTED for dates, times and
\* whatever else.
C16_NativeTypeMapping ==
    look.op = "column_type" => look.t = Family(cols[look.v + 1].f)

(***************************************************************************)
(* SpecBatch                                                               *)
(*                                                                         *)
(* connection::execute(sql) of the adapters whose native call runs several *)
(* statements separated by semicolons: sqlite3_exec, and mysql_real_query  *)
(* on a connection opened with CLIENT_MULTI_STATEMENTS.  A statement is    *)
(* its kind and the number of rows it changes; stats.changes is the        *)
(* connection's sqlite3_changes64 counter, which outlives the call.        *)
(***************************************************************************)

\* Largest number of statements in one call.
MaxBatch == 3

\* INSERT / UPDATE / DELETE changing n rows, a DDL statement, a SELECT.
Statements ==
    { [kind |-> "dml", rows |-> n] : n \in 0..MaxVal }
        \cup { [kind |-> "ddl", rows |-> 0], [kind |-> "select", rows |-> 0] }

Batches == UNION { [1..n -> Statements] : n \in 1..MaxBatch }

\* sqlite3_total_changes64 after the statements, less its value before.
RECURSIVE total_changes(_)
total_changes(b) ==
    IF b = <<>> THEN 0 ELSE b[Len(b)].rows + total_changes(SubSeq(b, 1, Len(b) - 1))

\* sqlite3_changes64 after the statements: the rows of the most recently
\* completed INSERT, UPDATE or DELETE, of an earlier call when there is none.
RECURSIVE last_changes(_, _)
last_changes(b, before) ==
    IF b = <<>> THEN before
    ELSE IF b[Len(b)].kind = "dml" THEN b[Len(b)].rows
    ELSE last_changes(SubSeq(b, 1, Len(b) - 1), before)

\* The loop over mysql_next_result: mysql_affected_rows is ~0 for a result
\* set not yet read and is left out of the sum.
RECURSIVE total_affected_rows(_)
total_affected_rows(b) ==
    IF b = <<>> THEN 0
    ELSE (IF b[Len(b)].kind = "select" THEN 0 ELSE b[Len(b)].rows)
             + total_affected_rows(SubSeq(b, 1, Len(b) - 1))

InitBatch ==
    /\ adapter \in {"sqlite", "mariadb"}
    /\ IdleLife
    /\ IdleCursor
    /\ IdleExec
    /\ IdleBind
    /\ IdleValue
    /\ IdleFail
    /\ IdleCols
    /\ IdleBuffers
    /\ batch = <<>>
    /\ stats = NoStats

\* sqlite::connection::execute(query)
Q_sqlite_execute(b) ==
    /\ adapter = "sqlite"
    /\ batch' = b
    /\ LET change_count == last_changes(b, stats.changes)
       IN stats' = [run |-> TRUE,
                    affected |-> IF change_count # 0 THEN change_count ELSE total_changes(b),
                    changes |-> change_count]
    /\ UNCHANGED <<adapter, notBatch>>

\* mariadb::connection::execute(sql)
Q_mariadb_execute(b) ==
    /\ adapter = "mariadb"
    /\ batch' = b
    /\ stats' = [run |-> TRUE, affected |-> total_affected_rows(b), changes |-> 0]
    /\ UNCHANGED <<adapter, notBatch>>

NextBatch ==
    \/ \E b \in Batches : Q_sqlite_execute(b)
    \/ \E b \in Batches : Q_mariadb_execute(b)

SpecBatch == InitBatch /\ [][NextBatch]_vars

\* The rows changed by the statements of the batch, added up.
RECURSIVE RowsChanged(_)
RowsChanged(b) ==
    IF b = <<>> THEN 0 ELSE Head(b).rows + RowsChanged(Tail(b))

\* C15: connection.execute on a batch of statements returns a stats result
\* whose affected_rows() is the sum of the rows changed by each statement,
\* in SQLite and in MariaDB.
C15_BatchAffectedRowsIsSum ==
    stats.run => stats.affected = RowsChanged(batch)

(***************************************************************************)
(* SpecBuffers: the vectors of one MariaDB statement.                      *)
(*                                                                         *)
(* mysql_statement keeps _my_types, _lengths, _is_nulls and _buffers for   *)
(* the parameters the caller binds, and prepare_buffers() describes the    *)
(* result columns in vectors of the same names, next to _column_names and  *)
(* _column_types.  The caller binds parameters and executes the statement  *)
(* along any of the three paths, up to MaxRuns times.                      *)
(***************************************************************************)

\* Largest number of executions of the statement.
MaxRuns == 2

\* The names of the result columns, in order.
ColNames == <<"id", "n">>

\* What the caller binds: nullptr, an int64_t, a string of three characters.
BindKinds == {"null", "int64", "string"}

\* The native type the switch of prepare_buffers() pushes to _my_types.
my_type(f) ==
    CASE f.type = "MYSQL_TYPE_TINY" -> "MYSQL_TYPE_TINY"
      [] f.type \in {"MYSQL_TYPE_SHORT", "MYSQL_TYPE_LONG", "MYSQL_TYPE_INT24",
                     "MYSQL_TYPE_YEAR"} -> "MYSQL_TYPE_LONG"
      [] f.type = "MYSQL_TYPE_LONGLONG" -> "MYSQL_TYPE_LONGLONG"
      [] f.type \in {"MYSQL_TYPE_FLOAT", "MYSQL_TYPE_DOUBLE"} -> "MYSQL_TYPE_DOUBLE"
      [] f.type \in {"MYSQL_TYPE_STRING", "MYSQL_TYPE_VAR_STRING", "MYSQL_TYPE_VARCHAR",
                     "MYSQL_TYPE_BLOB", "MYSQL_TYPE_TINY_BLOB", "MYSQL_TYPE_MEDIUM_BLOB",
                     "MYSQL_TYPE_LONG_BLOB"} ->
             IF f.binary THEN "MYSQL_TYPE_BLOB" ELSE "MYSQL_TYPE_STRING"
      [] OTHER -> "MYSQL_TYPE_NULL"

\* set<T>(vec, index, value, def): grow the vector to index + 1, then store.
\* Position k of the sequence is element k - 1 of the vector.
set(vec, k, value, def) == [Resize(vec, k, def) EXCEPT ![k] = value]

\* mysql_statement::bind(index, ...) with index = k - 1, as statement::bind(k, ...) calls it
mysql_statement_bind(st, k, kind) ==
    LET len == CASE kind = "null" -> 0 [] kind = "int64" -> 8 [] OTHER -> 3
        nul == IF kind = "null" THEN 1 ELSE 0
        typ == CASE kind = "null" -> "MYSQL_TYPE_NULL"
                 [] kind = "int64" -> "MYSQL_TYPE_LONGLONG"
                 [] OTHER -> "MYSQL_TYPE_STRING"
    IN  [st EXCEPT !.lengths = set(st.lengths, k, len, 0),
                   !.is_nulls = set(st.is_nulls, k, nul, 0),
                   !.my_types = set(st.my_types, k, typ, "MYSQL_TYPE_NULL")]

\* mysql_statement::prepare_buffers(): one entry more per result column in
\* every vector, then the result binds from the first column_count entries.
mysql_prepare_buffers(st) ==
    LET n == Len(fields)
        t == [st EXCEPT
                !.column_names = @ \o [i \in 1..n |-> fields[i].name],
                !.column_types = @ \o [i \in 1..n |-> prepare_buffers(fields[i])],
                !.my_types = @ \o [i \in 1..n |-> my_type(fields[i])],
                !.lengths = @ \o [i \in 1..n |-> fields[i].length],
                !.is_nulls = @ \o [i \in 1..n |-> 0]]
    IN  [t EXCEPT !.binds = [i \in 1..n |-> [buffer_type |-> t.my_types[i],
                                             length |-> t.lengths[i],
                                             is_null |-> t.is_nulls[i]]]]

InitBuffers ==
    /\ adapter = "mariadb"
    /\ IdleLife
    /\ IdleCursor
    /\ IdleExec
    /\ IdleBind
    /\ IdleValue
    /\ IdleFail
    /\ IdleCols
    /\ IdleBatch
    /\ \E n \in 1..MaxCols :
           \E fs \in [1..n -> NativeFields("mariadb")] :
               fields = [i \in 1..n |-> [name |-> ColNames[i]] @@ fs[i]]
    /\ mystmt = NoStmt

\* statement->bind(k, nullptr / int64_t / string)
M_bind(k, kind) ==
    /\ mystmt' = mysql_statement_bind(mystmt, k, kind)
    /\ UNCHANGED <<adapter, fields, notBuffers>>

\* statement->execute(), execute_buffered() or execute(callback): each runs
\* mysql_statement::execute() and then prepare_buffers() once, from the
\* constructor of the resultset or from consume_results().
M_execute(path) ==
    /\ mystmt.runs < MaxRuns
    /\ mystmt' = [mysql_prepare_buffers(mystmt) EXCEPT !.runs = @ + 1, !.path = path]
    /\ UNCHANGED <<adapter, fields, notBuffers>>

NextBuffers ==
    \/ \E k \in 1..MaxParams, kind \in BindKinds : M_bind(k, kind)
    \/ \E path \in {"cursor", "buffered", "callback"} : M_execute(path)

SpecBuffers == InitBuffers /\ [][NextBuffers]_vars

\* resultset::column_count() of the MariaDB adapter: _column_names.size()
mysql_column_count == Len(mystmt.column_names)

\* C23: in MariaDB the bound parameters do not reach the result buffers: after
\* an execution, result column i is fetched into a buffer whose native type,
\* length and null flag come from the metadata of column i.
C23_ResultBindsFollowColumns ==
    mystmt.runs > 0 =>
        \A i \in 1..Len(fields) :
            mystmt.binds[i] = [buffer_type |-> my_type(fields[i]),
                               length |-> fields[i].length,
                               is_null |-> 0]

\* C24: in MariaDB, after any number of executions along any path,
\* column_count() is the number of columns of the result and column_name(i),
\* column_type(i) describe column i.
C24_MetadataNotAccumulated ==
    mystmt.runs > 0 =>
        /\ mysql_column_count = Len(fields)
        /\ \A i \in 1..Len(fields) :
               /\ mystmt.column_names[i] = fields[i].name
               /\ mystmt.column_types[i] = prepare_buffers(fields[i])

====
